---- MODULE Spec2Model ----
(***************************************************************************)
(* Slimline Tactical: the turn scheduler (TurnManager), the unit state     *)
(* (UnitManager), the attack/overwatch resolution (CombatSystem) and the   *)
(* rule-based opponent (AIController) as one state machine.                *)
(*                                                                         *)
(* Every handler is one action per run-to-completion segment: a segment    *)
(* starts at an incoming event (a click, an action button, a task that     *)
(* resumes after an await on an animation, a tween or a timer) and runs    *)
(* to the next such await.  Pending continuations are the bag `tasks`.     *)
(*                                                                         *)
(* The map geometry (which enemies are in range and in line of sight,      *)
(* which tiles are reachable, which watchers a path step triggers) is an   *)
(* input of the scheduler: the actions draw it with \E from the sets the   *)
(* code filters (living enemies, enemies in Overwatch).                    *)
(***************************************************************************)
EXTENDS Naturals, Integers, Sequences, FiniteSets, Bags, TLC

----------------------------------------------------------------------------
(* Bounds of the model *)

SpawnTiles == 2        \* spawn tiles a faction has at most in the loaded map
MaxTurn == 2           \* turns played
MaxTasks == 2          \* continuations pending at the same time
MaxPath == 2           \* path steps on which overwatch may trigger
MaxStray == 1          \* action commands taken while the phase forbids them
MaxAttacks == 2        \* executeAttack calls in a run
MaxCommands == 2       \* player commands taken in a run
MaxActivations == 5    \* activations begun in a run

(* Program constants *)

squadSize == 5
UNIT_STATS_hp == 10
UNIT_STATS_ap == 2
UNIT_STATS_movement == 4
rangedDamage == 4
meleeDamage == 5

Min(a, b) == IF a < b THEN a ELSE b
Max(a, b) == IF a > b THEN a ELSE b

----------------------------------------------------------------------------
(* Units.  spawnSquad creates min(squadSize, #spawn tiles) units for a     *)
(* faction.  The i-th unit of the player's squad is 2i-1, the i-th of the  *)
(* AI's squad 2i: within a faction the ids follow the order of the units   *)
(* array, which is the only order the code uses.                           *)

PerFaction == Min(squadSize, SpawnTiles)
Units == 1 .. (2 * PerFaction)
NoUnit == 0
SpawnCounts == 1 .. SpawnTiles

(* the maps of the model, as <<player spawn tiles, AI spawn tiles>> *)
Maps == {m \in SpawnCounts \X SpawnCounts : m[2] <= m[1]}

playerFaction == "player"
aiFaction == "ai"
Factions == {playerFaction, aiFaction}
NoFaction == "none"

faction(u) == IF u % 2 = 1 THEN playerFaction ELSE aiFaction
enemyFaction(f) == IF f = playerFaction THEN aiFaction ELSE playerFaction

READY == "ready"
ACTIVATED == "activated"
OVERWATCH == "overwatch"
HUNKERED == "hunkered"
DEAD == "dead"
UNIT_STATUS == {READY, ACTIVATED, OVERWATCH, HUNKERED, DEAD}

NoCone == "null"
FacingCone == "facing"

PLAYER_SELECT_UNIT == "player_select_unit"
PLAYER_MOVEMENT == "player_movement"
PLAYER_ACTION == "player_action"
PLAYER_TARGET_SELECT == "player_target_select"
COMBAT_ANIMATION == "combat_animation"
AI_THINKING == "ai_thinking"
AI_ACTING == "ai_acting"
GAME_OVER == "game_over"

(* A unit's position is the index of the tile it stands on among the tiles  *)
(* it has stood on: tile <<u, k>> is the k-th tile of unit u, <<u, 0>> its *)
(* spawn tile.  Paths and destinations are walkable tiles, so no two units *)
(* ever stand on the same tile.  `shots` counts the overwatch shots the    *)
(* unit has fired since it last went into Overwatch.                       *)
createUnit ==
    [hp |-> UNIT_STATS_hp, maxHp |-> UNIT_STATS_hp,
     ap |-> UNIT_STATS_ap, maxAp |-> UNIT_STATS_ap,
     activated |-> FALSE, alive |-> TRUE, status |-> READY,
     overwatchCone |-> NoCone, tile |-> 0, isMoving |-> FALSE, shots |-> 0]

----------------------------------------------------------------------------
VARIABLES
    units,                  \* unit -> record of its fields
    phase,                  \* gameState.phase
    activeUnit,             \* gameState.activeUnit (NoUnit: null)
    activationQueue,        \* sequence of units
    currentActivationIndex, \* 0-based cursor into activationQueue
    turn,                   \* gameState.turn
    validTargets,           \* gameState._validTargets ({}: null)
    pendingAttackType,      \* gameState._pendingAttackType
    inputEnabled,           \* InputManager.enabled
    tasks,                  \* bag of pending continuations
    winner,                 \* payload of the last game:over event
    began,                  \* the activation begun by the last step, if any
    lastFaction,            \* faction of the last activation ended this turn
    missed,                 \* living units not activated when endTurn last ran
    endCount,               \* endActivation calls per unit in this turn
    stray,                  \* action commands taken in a forbidding phase
    attacks,                \* executeAttack calls so far
    commands,               \* player commands taken so far
    activations,            \* activations begun so far
    occupant,               \* the tiles that have an occupant, with it
    fired,                  \* the executeAttack call made by the last step
    attacked,               \* the executeAttack call that returned in it
    moved,                  \* the path a unit has finished walking in it
    scene,                  \* the map, units or file a part of the game is run on
    outcome                 \* what that part returned or has reached

vars == <<units, phase, activeUnit, activationQueue, currentActivationIndex,
          turn, validTargets, pendingAttackType, inputEnabled, tasks, winner,
          began, lastFaction, missed, endCount, stray, attacks,
          commands, activations, occupant, fired, attacked, moved, scene,
          outcome>>

NoBegin == [unit |-> NoUnit, prev |-> NoFaction]

(* what executeAttack sees of its two units: their fields and the occupants *)
(* of the tiles they stood on when it was called                           *)
NoSnapshot ==
    [attacker |-> createUnit, target |-> createUnit,
     attackerAt |-> NoUnit, targetAt |-> NoUnit]

NoFired ==
    [attacker |-> NoUnit, target |-> NoUnit, attackType |-> "none",
     overwatch |-> FALSE, stepsLeft |-> 0]

NoAttacked ==
    [attacker |-> NoUnit, target |-> NoUnit, attackType |-> "none",
     overwatch |-> FALSE, stepsLeft |-> 0, hit |-> FALSE, killed |-> FALSE,
     before |-> NoSnapshot, after |-> NoSnapshot]

(* the unit that has walked its path, the enemy watchers whose trigger     *)
(* conditions the first qualifying step of the path met, and those among   *)
(* them executeOverwatchShot is called for                                 *)
NoMoved == [unit |-> NoUnit, watchers |-> {}, shots |-> {}]

(* the one element of a singleton: handlers that pass the state on bind it   *)
(* once, Only({handler body : s \in {state}})                               *)
Only(S) == CHOOSE x \in S : TRUE

NoScene == [kind |-> "none"]
NoOutcome == [kind |-> "none"]

(* The state as a record, so that handlers are operators from state to     *)
(* state; `ok` turns FALSE when a handler would exceed a bound.            *)
Cur ==
    [units |-> units, phase |-> phase, activeUnit |-> activeUnit,
     activationQueue |-> activationQueue,
     currentActivationIndex |-> currentActivationIndex, turn |-> turn,
     validTargets |-> validTargets, pendingAttackType |-> pendingAttackType,
     inputEnabled |-> inputEnabled, tasks |-> tasks, winner |-> winner,
     began |-> NoBegin, lastFaction |-> lastFaction, missed |-> missed,
     endCount |-> endCount, stray |-> stray, attacks |-> attacks,
     commands |-> commands, activations |-> activations,
     occupant |-> occupant, fired |-> NoFired, attacked |-> NoAttacked,
     moved |-> NoMoved, ok |-> TRUE]

Becomes(state) ==
    \E s \in {state} :
    /\ s.ok
    /\ units' = s.units
    /\ phase' = s.phase
    /\ activeUnit' = s.activeUnit
    /\ activationQueue' = s.activationQueue
    /\ currentActivationIndex' = s.currentActivationIndex
    /\ turn' = s.turn
    /\ validTargets' = s.validTargets
    /\ pendingAttackType' = s.pendingAttackType
    /\ inputEnabled' = s.inputEnabled
    /\ tasks' = s.tasks
    /\ winner' = s.winner
    /\ began' = s.began
    /\ lastFaction' = s.lastFaction
    /\ missed' = s.missed
    /\ endCount' = s.endCount
    /\ stray' = s.stray
    /\ attacks' = s.attacks
    /\ commands' = s.commands
    /\ activations' = s.activations
    /\ occupant' = s.occupant
    /\ fired' = s.fired
    /\ attacked' = s.attacked
    /\ moved' = s.moved
    /\ UNCHANGED <<scene, outcome>>

----------------------------------------------------------------------------
(* UnitManager *)

RECURSIVE FilterSeq(_, _, _)
FilterSeq(us, f, i) ==
    IF i > 2 * squadSize THEN <<>>
    ELSE IF i \in DOMAIN us /\ faction(i) = f /\ us[i].alive
            /\ ~us[i].activated
         THEN <<i>> \o FilterSeq(us, f, i + 1)
         ELSE FilterSeq(us, f, i + 1)

(* GridManager: the occupants.  `occ` holds one entry per occupied tile. *)
tileOf(us, u) == <<u, us[u].tile>>

setOccupant(occ, tile, u) ==
    {e \in occ : e.tile # tile} \cup {[tile |-> tile, unit |-> u]}

clearOccupant(occ, tile) == {e \in occ : e.tile # tile}

getOccupant(occ, tile) ==
    IF \E e \in occ : e.tile = tile
    THEN (CHOOSE e \in occ : e.tile = tile).unit
    ELSE NoUnit

(* the tiles units stand on have their walkable flag set *)
isWalkable(occ, tile) == getOccupant(occ, tile) = NoUnit

getAliveUnits(us, f) == {u \in DOMAIN us : faction(u) = f /\ us[u].alive}

getUnactivatedUnits(us, f) == FilterSeq(us, f, 1)

applyDamage(us, u, damage) ==
    [us EXCEPT ![u].hp = Max(0, us[u].hp - damage)]

setUnitDead(us, u) ==
    [us EXCEPT ![u].alive = FALSE, ![u].status = DEAD, ![u].hp = 0]

(* moveUnit up to the promise it returns: the old tile is given up *)
moveUnit(s, u) ==
    [s EXCEPT !.units[u].isMoving = TRUE,
              !.occupant = clearOccupant(@, tileOf(s.units, u))]

(* the frame in which the unit arrives on the last tile of its path:       *)
(* _updateMovement moves unit.tile there and calls _finishMovement         *)
finishMovement(s, u) ==
    LET us == [s.units EXCEPT ![u].tile = @ + 1, ![u].isMoving = FALSE]
    IN  [s EXCEPT !.units = us,
                  !.occupant = setOccupant(@, tileOf(us, u), u)]

(* a reset that does not pass over the dead *)
resetActivations_DeadToo(us) ==
    [u \in DOMAIN us |->
        [us[u] EXCEPT !.activated = FALSE, !.ap = us[u].maxAp]]

resetActivations(us) ==
    [u \in DOMAIN us |->
        IF ~us[u].alive THEN us[u]
        ELSE IF us[u].status \in {OVERWATCH, HUNKERED}
             THEN [us[u] EXCEPT !.activated = FALSE, !.ap = us[u].maxAp,
                                !.status = READY, !.overwatchCone = NoCone]
             ELSE [us[u] EXCEPT !.activated = FALSE, !.ap = us[u].maxAp]]

markActivated(us, u) ==
    [us EXCEPT ![u].activated = TRUE,
               ![u].status = IF us[u].status = READY THEN ACTIVATED
                             ELSE us[u].status]

----------------------------------------------------------------------------
(* CombatSystem: stances *)

setOverwatch(us, u) ==
    [us EXCEPT ![u].status = OVERWATCH, ![u].overwatchCone = FacingCone,
               ![u].ap = Max(0, us[u].ap - 1), ![u].shots = 0]

setHunker(us, u) ==
    [us EXCEPT ![u].status = HUNKERED, ![u].ap = Max(0, us[u].ap - 1)]

----------------------------------------------------------------------------
(* Pending continuations.  A task is the local state an async function     *)
(* keeps across an await: the unit it was called for, where it stands, and *)
(* the attack it is resolving.                                             *)

NoTask ==
    [kind |-> "none", unit |-> NoUnit, pc |-> "none", attacker |-> NoUnit,
     target |-> NoUnit, attackType |-> "none", killed |-> FALSE,
     first |-> FALSE, stepsLeft |-> 0, triggers |-> {},
     hit |-> FALSE, pre |-> NoSnapshot]

TurnTask == [NoTask EXCEPT !.kind = "turn", !.pc = "banner"]

AITask(u) == [NoTask EXCEPT !.kind = "ai", !.unit = u, !.pc = "aiStart"]

MoveTask(u, len) ==
    [NoTask EXCEPT !.kind = "move", !.unit = u, !.pc = "moving",
                   !.stepsLeft = len]

AttackTask(u, target, type) ==
    [NoTask EXCEPT !.kind = "attack", !.unit = u, !.pc = "atkRoll",
                   !.attacker = u, !.target = target, !.attackType = type]

Spawn(state, t) ==
    Only({
        IF BagCardinality(s.tasks) >= MaxTasks
        THEN [s EXCEPT !.ok = FALSE]
        ELSE [s EXCEPT !.tasks = @ (+) SetToBag({t})]
        : s \in {state}})

Retire(s, t) == [s EXCEPT !.tasks = @ (-) SetToBag({t})]

Resume(s, t, t2) == [s EXCEPT !.tasks = (@ (-) SetToBag({t})) (+) SetToBag({t2})]

----------------------------------------------------------------------------
(* TurnManager *)

RECURSIVE Interleave(_, _, _)
Interleave(p, a, i) ==
    IF i > Max(Len(p), Len(a)) THEN <<>>
    ELSE (IF i <= Len(p) THEN <<p[i]>> ELSE <<>>)
         \o (IF i <= Len(a) THEN <<a[i]>> ELSE <<>>)
         \o Interleave(p, a, i + 1)

(* buildActivationQueue with the AI's unit first in each round *)
buildActivationQueue_AIFirst(us) ==
    Interleave(getUnactivatedUnits(us, aiFaction),
               getUnactivatedUnits(us, playerFaction), 1)

buildActivationQueue(us) ==
    Interleave(getUnactivatedUnits(us, playerFaction),
               getUnactivatedUnits(us, aiFaction), 1)

(* checkWinCondition with the two winners exchanged *)
checkWinCondition_Swapped(us) ==
    IF getAliveUnits(us, aiFaction) = {} THEN aiFaction
    ELSE IF getAliveUnits(us, playerFaction) = {} THEN playerFaction
    ELSE NoFaction

checkWinCondition(us) ==
    IF getAliveUnits(us, aiFaction) = {} THEN playerFaction
    ELSE IF getAliveUnits(us, playerFaction) = {} THEN aiFaction
    ELSE NoFaction

handleGameOver(s, w) ==
    [s EXCEPT !.phase = GAME_OVER, !.inputEnabled = FALSE, !.winner = w]

(* the bookkeeping of an activation that begins *)
Begun(state, u) ==
    Only({
        [s EXCEPT !.began = [unit |-> u, prev |-> s.lastFaction],
                  !.activations = @ + 1,
                  !.ok = s.ok /\ s.activations < MaxActivations]
        : s \in {state}})

beginPlayerActivation(s, u) ==
    Begun([s EXCEPT !.activeUnit = u, !.phase = PLAYER_MOVEMENT,
                    !.inputEnabled = TRUE], u)

beginAIActivation(s, u) ==
    LET thinking == [s EXCEPT !.activeUnit = u, !.phase = AI_THINKING,
                              !.inputEnabled = FALSE]
    IN  Spawn(Begun([thinking EXCEPT !.phase = AI_ACTING], u), AITask(u))

startTurn(state) ==
    Only({
        IF s.turn >= MaxTurn THEN [s EXCEPT !.ok = FALSE]
        ELSE LET us == resetActivations(s.units)
             IN  Spawn([s EXCEPT !.turn = @ + 1, !.units = us,
                                 !.activationQueue = buildActivationQueue(us),
                                 !.currentActivationIndex = 0,
                                 !.lastFaction = NoFaction,
                                 !.endCount = [u \in Units |-> 0]],
                       TurnTask)
        : s \in {state}})

endTurn(s) ==
    startTurn([s EXCEPT !.missed =
        {u \in DOMAIN s.units : s.units[u].alive /\ ~s.units[u].activated}])

RECURSIVE NextIndex(_, _, _)
NextIndex(us, q, i) ==
    IF i >= Len(q) THEN i
    ELSE IF us[q[i + 1]].alive /\ ~us[q[i + 1]].activated THEN i
         ELSE NextIndex(us, q, i + 1)

nextActivation(state) ==
    Only({
        LET w == checkWinCondition(s.units)
            i == NextIndex(s.units, s.activationQueue, s.currentActivationIndex)
            at == [s EXCEPT !.currentActivationIndex = i]
        IN  IF w # NoFaction THEN handleGameOver(s, w)
            ELSE IF i < Len(s.activationQueue)
                 THEN IF faction(s.activationQueue[i + 1]) = playerFaction
                      THEN beginPlayerActivation(at, s.activationQueue[i + 1])
                      ELSE beginAIActivation(at, s.activationQueue[i + 1])
                 ELSE endTurn(at)
        : s \in {state}})

endActivation(state, u) ==
    Only({
        nextActivation([s EXCEPT !.units = markActivated(@, u),
                                 !.activeUnit = NoUnit,
                                 !.currentActivationIndex = @ + 1,
                                 !.lastFaction = faction(u),
                                 !.endCount[u] = Min(2, @ + 1)])
        : s \in {state}})

enterActionPhase(s) ==
    [s EXCEPT !.phase = PLAYER_ACTION, !.inputEnabled = TRUE]

(* _enterTargetSelectPhase; `targets` is getValidTargets(unit, type) *)
enterTargetSelectPhase(s, type, targets) ==
    LET sel == [s EXCEPT !.phase = PLAYER_TARGET_SELECT,
                         !.pendingAttackType = type]
    IN  IF targets = {} THEN enterActionPhase(sel)
        ELSE [sel EXCEPT !.validTargets = targets]

(* a continuation that does not look at whether the mover is alive *)
afterMove_AliveUnchecked(s, u) ==
    IF s.units[u].ap > 0 THEN enterActionPhase(s)
    ELSE endActivation(s, u)

(* the steps of onPlayerMoveClick after the overwatch checks *)
afterMove(s, u) ==
    IF ~s.units[u].alive THEN endActivation(s, u)
    ELSE IF s.units[u].ap > 0 THEN enterActionPhase(s)
         ELSE endActivation(s, u)

(* the steps of onTargetClick after executeAttack has returned *)
afterPlayerAttack(s, u) ==
    LET c == [s EXCEPT !.validTargets = {}, !.pendingAttackType = "none"]
        w == checkWinCondition(c.units)
    IN  IF w # NoFaction THEN handleGameOver(c, w)
        ELSE IF c.units[u].ap > 0 /\ c.units[u].alive
             THEN enterActionPhase(c)
             ELSE endActivation(c, u)

(* a return from activateUnit after which the activation is not ended *)
afterAIActivation_Unended(s, u) ==
    LET w == checkWinCondition(s.units)
    IN  IF w # NoFaction THEN handleGameOver(s, w) ELSE s

(* the steps of beginAIActivation after activateUnit has returned *)
afterAIActivation(s, u) ==
    LET w == checkWinCondition(s.units)
    IN  IF w # NoFaction THEN handleGameOver(s, w) ELSE endActivation(s, u)

onPlayerAction(s, actionType, targets) ==
    LET u == s.activeUnit
    IN  IF u = NoUnit \/ ~s.units[u].alive THEN s
        ELSE CASE actionType = "shoot" ->
                    enterTargetSelectPhase(s, "ranged", targets)
               [] actionType = "melee" ->
                    enterTargetSelectPhase(s, "melee", targets)
               [] actionType = "overwatch" ->
                    endActivation([s EXCEPT !.units = setOverwatch(@, u)], u)
               [] actionType = "hunker" ->
                    endActivation([s EXCEPT !.units = setHunker(@, u)], u)
               [] actionType = "endTurn" -> endActivation(s, u)

handleCancel(s) ==
    IF s.phase = PLAYER_TARGET_SELECT
    THEN LET c == [s EXCEPT !.validTargets = {}, !.pendingAttackType = "none"]
         IN  IF c.activeUnit # NoUnit THEN enterActionPhase(c) ELSE c
    ELSE s

----------------------------------------------------------------------------
(* CombatSystem.executeAttack, one operator per segment between awaits *)

(* up to the first await: the phase is set *)
executeAttackEntry(s) ==
    [s EXCEPT !.phase = COMBAT_ANIMATION, !.attacks = @ + 1,
              !.ok = s.ok /\ s.attacks < MaxAttacks]

(* the fields of attacker `a` and target `tg` and the occupants of the      *)
(* tiles they stood on in `from`                                           *)
Seen(s, a, tg, from) ==
    [attacker |-> s.units[a], target |-> s.units[tg],
     attackerAt |-> getOccupant(s.occupant, <<a, from.attacker.tile>>),
     targetAt |-> getOccupant(s.occupant, <<tg, from.target.tile>>)]

(* the call of executeAttack that task `t` makes: up to the first await,   *)
(* and the record of the call; a shot of executeOverwatchShot counts       *)
executeAttackCalled(s, t) ==
    LET e == executeAttackEntry(s)
    IN  [e EXCEPT !.fired = [attacker |-> t.attacker, target |-> t.target,
                             attackType |-> t.attackType,
                             overwatch |-> t.kind = "move",
                             stepsLeft |-> t.stepsLeft],
                  !.units[t.attacker].shots =
                        IF t.kind = "move" THEN @ + 1 ELSE @]

(* the task once it waits inside executeAttack *)
executeAttackAwaited(s, t) ==
    [t EXCEPT !.pc = "atkRoll",
              !.pre = Seen(s, t.attacker, t.target,
                           [attacker |-> s.units[t.attacker],
                            target |-> s.units[t.target]])]

attackDamage(type) == IF type = "ranged" THEN rangedDamage ELSE meleeDamage

(* the roll and, on a hit, applyDamage; `killed` is kept for the next segment *)
executeAttackRoll(s, t, hit) ==
    LET us == applyDamage(s.units, t.target, attackDamage(t.attackType))
        killed == us[t.target].hp <= 0
    IN  IF hit
        THEN Resume([s EXCEPT !.units = us], t,
                    [t EXCEPT !.killed = killed, !.hit = TRUE,
                              !.pc = IF killed THEN "atkDeath" ELSE "atkEnd"])
        ELSE Resume(s, t, [t EXCEPT !.killed = FALSE, !.hit = FALSE,
                                    !.pc = "atkEnd"])

(* after the attack animation: death handling *)
executeAttackDeath(s, t) ==
    Resume([s EXCEPT !.units = setUnitDead(@, t.target),
                     !.occupant = clearOccupant(@, tileOf(s.units, t.target))],
           t, [t EXCEPT !.pc = "atkEnd"])

(* executeAttackEnd without the floor at 0 *)
executeAttackEnd_NoFloor(s, t) ==
    [s EXCEPT !.units[t.attacker].ap = @ - 1]

(* after the camera has returned: the AP of the attacker *)
executeAttackEnd(s, t) ==
    [s EXCEPT !.units[t.attacker].ap = Max(0, @ - 1)]

(* the enemies of the mover that checkOverwatch examines for range, line   *)
(* of sight and cone *)
overwatchCandidates(us, mover) ==
    {e \in getAliveUnits(us, enemyFaction(faction(mover))) :
        us[e].status = OVERWATCH}

SetMin(S) == CHOOSE x \in S : \A y \in S : x <= y

(* a shot that leaves the watcher in Overwatch *)
overwatchFired_StillWatching(s, watcher) ==
    s

(* executeOverwatchShot after executeAttack has returned *)
overwatchFired(s, watcher) ==
    [s EXCEPT !.units[watcher].status = ACTIVATED,
              !.units[watcher].overwatchCone = NoCone]

(* _checkOverwatchAlongPath from the point where a shot (or the move) has  *)
(* resolved: the rest of this step's triggers, then the next path step     *)
(* whose trigger list `trig` is not empty (`skip` steps ahead; 0: none).   *)
checkOverwatchAlongPath(s, t, skip, trig) ==
    IF t.triggers # {}
    THEN Resume(s, t, [t EXCEPT !.pc = "atkStart",
                                !.attacker = SetMin(t.triggers),
                                !.target = t.unit, !.attackType = "ranged",
                                !.triggers = @ \ {SetMin(t.triggers)}])
    ELSE IF skip = 0 THEN afterMove(Retire(s, t), t.unit)
    ELSE Resume(s, t, [t EXCEPT !.pc = "atkStart",
                                !.attacker = SetMin(trig),
                                !.target = t.unit, !.attackType = "ranged",
                                !.stepsLeft = @ - skip,
                                !.triggers = trig \ {SetMin(trig)}])

(* the choices of (skip, trig) the geometry may produce *)
TriggerChoice(s, t, skip, trig) ==
    \/ skip = 0 /\ trig = {}
    \/ /\ t.triggers = {}
       /\ skip \in 1 .. t.stepsLeft
       /\ trig # {}
       /\ trig \subseteq overwatchCandidates(s.units, t.unit)

(* the segment that ends an attack, by the caller that awaits it *)
attackResolved(s, t, skip, trig) ==
    LET r == executeAttackEnd(s, t)
        e == [r EXCEPT !.attacked =
                [attacker |-> t.attacker, target |-> t.target,
                 attackType |-> t.attackType,
                 overwatch |-> t.kind = "move",
                 stepsLeft |-> t.stepsLeft, hit |-> t.hit,
                 killed |-> t.killed, before |-> t.pre,
                 after |-> Seen(r, t.attacker, t.target, t.pre)]]
    IN  CASE t.kind = "attack" -> afterPlayerAttack(Retire(e, t), t.unit)
          [] t.kind = "ai" -> Resume(e, t, [t EXCEPT !.pc = "aiPost"])
          [] t.kind = "move" ->
                LET f == overwatchFired(e, t.attacker)
                IN  IF ~f.units[t.unit].alive
                    THEN afterMove(Retire(f, t), t.unit)
                    ELSE checkOverwatchAlongPath(f, t, skip, trig)

----------------------------------------------------------------------------
(* AIController.activateUnit, one operator per segment between awaits.     *)
(* `choice` is what the target queries and the tile scoring yield on the   *)
(* map: "melee"/"ranged" with the target pickBestTarget returns, "move"    *)
(* when executeAIMove finds a path, "stay" when it does not move, "none".  *)

aiAttack(s, t, type, target, first) ==
    Resume(s, t, [t EXCEPT !.pc = "atkStart", !.attacker = t.unit,
                           !.target = target, !.attackType = type,
                           !.first = first])

aiTargets(s, t) == getAliveUnits(s.units, enemyFaction(faction(t.unit)))

AIChoice(s, t, choice, target) ==
    \/ choice \in {"melee", "ranged"} /\ target \in aiTargets(s, t)
    \/ choice \in {"move", "stay", "none"} /\ target = NoUnit

(* activateUnit after the camera pan and the first delay *)
activateUnit(s, t, choice, target) ==
    LET u == t.unit
    IN  IF choice \in {"melee", "ranged"} /\ s.units[u].ap > 0
        THEN aiAttack(s, t, choice, target, TRUE)
        ELSE IF s.units[u].ap > 0
        THEN IF choice = "move" /\ aiTargets(s, t) # {}
             THEN Resume(moveUnit([s EXCEPT !.units[u].ap = Max(0, @ - 1)], u),
                         t, [t EXCEPT !.pc = "aiMoved"])
             ELSE IF ~s.units[u].alive
                  THEN afterAIActivation(Retire(s, t), u)
                  ELSE Resume(s, t, [t EXCEPT !.pc = "aiAfterMove"])
        ELSE afterAIActivation(Retire(s, t), u)

(* after executeAIMove has returned *)
aiMoved(s, t) ==
    LET u == t.unit
        m == finishMovement(s, u)
    IN  IF ~m.units[u].alive THEN afterAIActivation(Retire(m, t), u)
        ELSE IF m.units[u].ap > 0
             THEN Resume(m, t, [t EXCEPT !.pc = "aiAfterMove"])
             ELSE afterAIActivation(Retire(m, t), u)

(* the target search after the move *)
aiAfterMove(s, t, choice, target) ==
    LET u == t.unit
    IN  IF choice \in {"melee", "ranged"}
        THEN aiAttack(s, t, choice, target, FALSE)
        ELSE IF s.units[u].ap > 0
             THEN Resume([s EXCEPT !.units = setOverwatch(@, u)], t,
                         [t EXCEPT !.pc = "aiFinish"])
             ELSE afterAIActivation(Retire(s, t), u)

(* after executeAIAttack has returned *)
aiPost(s, t) ==
    LET u == t.unit
    IN  IF t.first /\ s.units[u].ap > 0 /\ s.units[u].alive
        THEN Resume(s, t, [t EXCEPT !.pc = "aiContinue"])
        ELSE afterAIActivation(Retire(s, t), u)

continueActivation(s, t, choice, target) ==
    LET u == t.unit
    IN  IF ~s.units[u].alive \/ s.units[u].ap <= 0
        THEN afterAIActivation(Retire(s, t), u)
        ELSE IF choice \in {"melee", "ranged"}
        THEN aiAttack(s, t, choice, target, FALSE)
        ELSE afterAIActivation(
                Retire([s EXCEPT !.units = setOverwatch(@, u)], t), u)

----------------------------------------------------------------------------
(* Player commands *)

PathLengths == 1 .. Min(MaxPath, UNIT_STATS_movement)

(* onPlayerMoveClick for a tile of the movement range with a path of `len` *)
onPlayerMoveClick(s, len) ==
    LET u == s.activeUnit
    IN  IF u = NoUnit \/ s.phase # PLAYER_MOVEMENT THEN s
        ELSE Spawn(moveUnit([s EXCEPT !.inputEnabled = FALSE,
                                      !.units[u].ap = Max(0, @ - 1),
                                      !.phase = COMBAT_ANIMATION], u),
                   MoveTask(u, len))

onTargetClick(s, target) ==
    LET u == s.activeUnit
    IN  IF u = NoUnit \/ s.phase # PLAYER_TARGET_SELECT THEN s
        ELSE IF target \notin s.validTargets THEN s
        ELSE LET c == [s EXCEPT !.inputEnabled = FALSE]
                 t == AttackTask(u, target, s.pendingAttackType)
             IN  Spawn(executeAttackCalled(c, t), executeAttackAwaited(c, t))

(* the unit:clicked listener *)
onUnitClicked(s, u) ==
    IF s.phase = PLAYER_TARGET_SELECT THEN onTargetClick(s, u)
    ELSE IF s.phase = PLAYER_SELECT_UNIT
    THEN IF faction(u) = playerFaction /\ s.units[u].alive
            /\ ~s.units[u].activated
         THEN beginPlayerActivation(s, u) ELSE s
    ELSE IF s.phase = PLAYER_MOVEMENT
    THEN IF faction(u) = playerFaction /\ s.units[u].alive
            /\ ~s.units[u].activated
            /\ s.activeUnit # NoUnit /\ s.activeUnit # u
         THEN beginPlayerActivation(s, u) ELSE s
    ELSE s

ActionTypes == {"shoot", "melee", "overwatch", "hunker", "endTurn"}

(* the target sets getValidTargets may return for the active unit *)
TargetChoice(s, actionType, targets) ==
    IF actionType \in {"shoot", "melee"} /\ s.activeUnit # NoUnit
    THEN targets \subseteq
            getAliveUnits(s.units, enemyFaction(faction(s.activeUnit)))
    ELSE targets = {}

----------------------------------------------------------------------------
(* The state after construction: squads spawned on a map with `p` player  *)
(* and `a` AI spawn tiles, startGame() has run                             *)

spawnSquad(f, n) ==
    {u \in 1 .. 2 * Min(squadSize, n) : faction(u) = f}

Constructed(p, a) ==
    LET us == [u \in spawnSquad(playerFaction, p) \cup spawnSquad(aiFaction, a)
                 |-> createUnit]
    IN  [units |-> us, phase |-> PLAYER_SELECT_UNIT, activeUnit |-> NoUnit,
         activationQueue |-> buildActivationQueue(us),
         currentActivationIndex |-> 0, turn |-> 1, validTargets |-> {},
         pendingAttackType |-> "none", inputEnabled |-> TRUE,
         tasks |-> EmptyBag, winner |-> NoFaction, began |-> NoBegin,
         lastFaction |-> NoFaction, missed |-> {},
         endCount |-> [u \in Units |-> 0], stray |-> 0,
         attacks |-> 0, commands |-> 0, activations |-> 0,
         occupant |-> {[tile |-> tileOf(us, u), unit |-> u] : u \in DOMAIN us},
         fired |-> NoFired, attacked |-> NoAttacked, moved |-> NoMoved,
         ok |-> TRUE]

startGame(p, a) == nextActivation(Constructed(p, a))

Init ==
    \E m \in Maps :
        LET g == startGame(m[1], m[2])
        IN  /\ g.ok
            /\ units = g.units
            /\ phase = g.phase
            /\ activeUnit = g.activeUnit
            /\ activationQueue = g.activationQueue
            /\ currentActivationIndex = g.currentActivationIndex
            /\ turn = g.turn
            /\ validTargets = g.validTargets
            /\ pendingAttackType = g.pendingAttackType
            /\ inputEnabled = g.inputEnabled
            /\ tasks = g.tasks
            /\ winner = g.winner
            /\ began = g.began
            /\ lastFaction = g.lastFaction
            /\ missed = g.missed
            /\ endCount = g.endCount
            /\ stray = g.stray
            /\ attacks = g.attacks
            /\ commands = g.commands
            /\ activations = g.activations
            /\ occupant = g.occupant
            /\ fired = g.fired
            /\ attacked = g.attacked
            /\ moved = g.moved
            /\ scene = NoScene
            /\ outcome = NoOutcome

----------------------------------------------------------------------------
(* the overwatch shots that wait to be fired at mover u *)
overwatchShotsAt(s, u) ==
    UNION {{t.attacker} \cup t.triggers :
              t \in {m \in BagToSet(s.tasks) :
                         m.pc = "atkStart" /\ m.target = u}}

(* state s, reached as u finished its path, of which `trig` are the enemy  *)
(* watchers whose trigger conditions its first qualifying step met         *)
walked(s, u, trig) ==
    [s EXCEPT !.moved = [unit |-> u, watchers |-> trig,
                         shots |-> overwatchShotsAt(s, u)]]

----------------------------------------------------------------------------
(* Actions: the incoming commands *)

Pending == BagToSet(tasks)

(* the state in which a handler takes a command *)
Taken == [Cur EXCEPT !.commands = @ + 1, !.ok = commands < MaxCommands]

(* tile:clicked on a tile of the movement range; clicks pass the           *)
(* InputManager only while it is enabled                                   *)
TileClicked ==
    /\ inputEnabled
    /\ phase = PLAYER_MOVEMENT
    /\ activeUnit # NoUnit
    /\ \E len \in PathLengths : Becomes(onPlayerMoveClick(Taken, len))

(* unit:clicked; main emits it for living units only *)
UnitClicked ==
    /\ inputEnabled
    /\ \E u \in DOMAIN units :
        /\ units[u].alive
        /\ onUnitClicked(Cur, u) # Cur
        /\ Becomes(onUnitClicked(Taken, u))

(* action:shoot .. action:endTurn, from the action bar buttons *)
PermittingPhases ==
    {PLAYER_SELECT_UNIT, PLAYER_MOVEMENT, PLAYER_ACTION, PLAYER_TARGET_SELECT}

Received ==
    IF phase \in PermittingPhases THEN Taken
    ELSE [Taken EXCEPT !.stray = @ + 1, !.ok = @ /\ stray < MaxStray]

ActionRequested(actionType) ==
    \E targets \in SUBSET Units :
        /\ TargetChoice(Cur, actionType, targets)
        /\ onPlayerAction(Cur, actionType, targets) # Cur
        /\ Becomes(onPlayerAction(Received, actionType, targets))

PlayerAction == \E actionType \in ActionTypes : ActionRequested(actionType)

(* selection:cleared (Escape, right click) *)
Cancel ==
    /\ inputEnabled
    /\ phase = PLAYER_TARGET_SELECT
    /\ Becomes(handleCancel(Taken))

(* Actions: the continuations that resume *)

TurnTransitionShown ==
    \E t \in Pending :
        /\ t.kind = "turn"
        /\ Becomes(nextActivation(Retire(Cur, t)))

MoveArrived ==
    \E t \in Pending :
        /\ t.pc = "moving"
        /\ \E skip \in 0 .. MaxPath, trig \in SUBSET Units :
            /\ TriggerChoice(Cur, t, skip, trig)
            /\ Becomes(walked(checkOverwatchAlongPath(
                                   finishMovement(Cur, t.unit), t, skip, trig),
                               t.unit, trig))

AttackStarted ==
    \E t \in Pending :
        /\ t.pc = "atkStart"
        /\ Becomes(Resume(executeAttackCalled(Cur, t), t,
                          executeAttackAwaited(Cur, t)))

AttackRolled ==
    \E t \in Pending :
        /\ t.pc = "atkRoll"
        /\ \E hit \in BOOLEAN : Becomes(executeAttackRoll(Cur, t, hit))

AttackDeath ==
    \E t \in Pending :
        /\ t.pc = "atkDeath"
        /\ Becomes(executeAttackDeath(Cur, t))

(* checkOverwatch looks at the next path steps once the shot has returned  *)
(* and the watcher has left Overwatch                                      *)
AttackResolved ==
    \E t \in Pending :
        /\ t.pc = "atkEnd"
        /\ \E skip \in 0 .. MaxPath, trig \in SUBSET Units :
            /\ TriggerChoice(IF t.kind = "move"
                             THEN overwatchFired(Cur, t.attacker) ELSE Cur,
                             t, skip, trig)
            /\ Becomes(attackResolved(Cur, t, skip, trig))

AIChoices == {"melee", "ranged", "move", "stay", "none"}

AIDecides ==
    \E t \in Pending :
        /\ t.pc = "aiStart"
        /\ \E choice \in AIChoices, target \in Units \cup {NoUnit} :
            /\ AIChoice(Cur, t, choice, target)
            /\ Becomes(activateUnit(Cur, t, choice, target))

AIMoved ==
    \E t \in Pending :
        /\ t.pc = "aiMoved"
        /\ \E trig \in SUBSET overwatchCandidates(units, t.unit) :
              Becomes(walked(aiMoved(Cur, t), t.unit, trig))

AIAfterMove ==
    \E t \in Pending :
        /\ t.pc = "aiAfterMove"
        /\ \E choice \in {"melee", "ranged", "none"},
              target \in Units \cup {NoUnit} :
            /\ AIChoice(Cur, t, choice, target)
            /\ Becomes(aiAfterMove(Cur, t, choice, target))

AIAttacked ==
    \E t \in Pending :
        /\ t.pc = "aiPost"
        /\ Becomes(aiPost(Cur, t))

AIContinues ==
    \E t \in Pending :
        /\ t.pc = "aiContinue"
        /\ \E choice \in {"melee", "ranged", "none"},
              target \in Units \cup {NoUnit} :
            /\ AIChoice(Cur, t, choice, target)
            /\ Becomes(continueActivation(Cur, t, choice, target))

AIFinished ==
    \E t \in Pending :
        /\ t.pc = "aiFinish"
        /\ Becomes(afterAIActivation(Retire(Cur, t), t.unit))

TaskStep ==
    \/ TurnTransitionShown
    \/ MoveArrived
    \/ AttackStarted
    \/ AttackRolled
    \/ AttackDeath
    \/ AttackResolved
    \/ AIDecides
    \/ AIMoved
    \/ AIAfterMove
    \/ AIAttacked
    \/ AIContinues
    \/ AIFinished

Next ==
    \/ TileClicked
    \/ UnitClicked
    \/ PlayerAction
    \/ Cancel
    \/ TaskStep

Spec == Init /\ [][Next]_vars

----------------------------------------------------------------------------
(* buildActivationQueue as a function of the units: two full squads whose  *)
(* units are each fresh, activated or dead, and one step that builds the   *)
(* queue (turn 0: not built yet).                                          *)

QueueUnits == 1 .. (2 * squadSize)

FreshUnit == createUnit
SpentUnit == [createUnit EXCEPT !.activated = TRUE, !.status = ACTIVATED]
FallenUnit == [createUnit EXCEPT !.alive = FALSE, !.status = DEAD, !.hp = 0]

InitQueue ==
    /\ units \in [QueueUnits -> {FreshUnit, SpentUnit, FallenUnit}]
    /\ phase = PLAYER_SELECT_UNIT
    /\ activeUnit = NoUnit
    /\ activationQueue = <<>>
    /\ currentActivationIndex = 0
    /\ turn = 0
    /\ validTargets = {}
    /\ pendingAttackType = "none"
    /\ inputEnabled = FALSE
    /\ tasks = EmptyBag
    /\ winner = NoFaction
    /\ began = NoBegin
    /\ lastFaction = NoFaction
    /\ missed = {}
    /\ endCount = [u \in Units |-> 0]
    /\ stray = 0
    /\ attacks = 0
    /\ commands = 0
    /\ activations = 0
    /\ occupant = {[tile |-> tileOf(units, u), unit |-> u] :
                        u \in {v \in QueueUnits : units[v].alive}}
    /\ fired = NoFired
    /\ attacked = NoAttacked
    /\ moved = NoMoved
    /\ scene = NoScene
    /\ outcome = NoOutcome

QueueBuilt ==
    /\ turn = 0
    /\ activationQueue' = buildActivationQueue(units)
    /\ turn' = 1
    /\ UNCHANGED <<units, phase, activeUnit, currentActivationIndex,
                   validTargets, pendingAttackType, inputEnabled, tasks,
                   winner, began, lastFaction, missed, endCount, stray,
                   attacks, commands, activations, occupant, fired, attacked,
                   moved, scene, outcome>>

NextQueue == QueueBuilt

SpecQueue == InitQueue /\ [][NextQueue]_vars

----------------------------------------------------------------------------
(* Properties *)

UnitIds == DOMAIN units

ActivationTasks == {t \in Pending : t.kind \in {"ai", "move", "attack"}}

(* C1: at most one activation is in progress: the pending move, attack and *)
(* AI continuations all belong to one unit, and an activation begins only  *)
(* when no continuation of an earlier activation is still pending.         *)
C1_SingleActivation ==
    /\ \A t1 \in ActivationTasks, t2 \in ActivationTasks : t1.unit = t2.unit
    /\ began.unit # NoUnit =>
        \A t \in ActivationTasks : t.unit = began.unit

(* the fields of the units that a command may not touch when it is ignored *)
UnitFields ==
    [u \in UnitIds |->
        <<units[u].hp, units[u].ap, units[u].status, units[u].activated,
          units[u].alive, units[u].overwatchCone>>]

(* C2: an action command that arrives in AIThinking, AIActing, the         *)
(* resolution wait or GameOver is ignored: the phase, the units, the       *)
(* active unit and the activation cursor stay as they are.                 *)
C2_ActionIgnored ==
    [][(phase \notin PermittingPhases /\ stray' # stray) =>
        /\ phase' = phase
        /\ UnitFields' = UnitFields
        /\ activeUnit' = activeUnit
        /\ currentActivationIndex' = currentActivationIndex]_vars

(* C3: GameOver is terminal: once the phase is GameOver no step changes    *)
(* the phase or a unit's hp, ap, status or activated flag.                 *)
C3_GameOverTerminal ==
    [][phase = GAME_OVER => phase' = GAME_OVER /\ UnitFields' = UnitFields]_vars

(* C4: endTurn runs only when every living unit has been activated, and no *)
(* unit completes two activations in one turn.  Stated for the runs in     *)
(* which every action command arrived in a phase that takes it.            *)
C4_TurnEndsWhenAllActivated ==
    stray = 0 =>
        /\ missed = {}
        /\ \A u \in UnitIds : endCount[u] <= 1

(* C5: while both factions have a living unactivated unit, the activation  *)
(* that begins is not of the faction whose activation ended before it.     *)
(* Stated for the runs in which every action command arrived in a phase    *)
(* that takes it.                                                          *)
C5_Alternation ==
    (stray = 0 /\ began.unit # NoUnit /\ began.prev = faction(began.unit)) =>
        getUnactivatedUnits(units, enemyFaction(began.prev)) = <<>>

Waiting(f) == {u \in UnitIds : faction(u) = f /\ units[u].alive
                                /\ ~units[u].activated}

(* C6: the queue built holds exactly the living unactivated units, each    *)
(* once, each faction's units in the order of the units array, and the     *)
(* factions alternate from the player's first unit for as long as both     *)
(* have units left; two fresh squads of five give ten entries that         *)
(* alternate strictly.                                                     *)
C6_QueueRoundRobin ==
    turn = 1 =>
        LET q == activationQueue
            both == 2 * Min(Cardinality(Waiting(playerFaction)),
                            Cardinality(Waiting(aiFaction)))
        IN  /\ {q[i] : i \in 1 .. Len(q)}
                    = Waiting(playerFaction) \cup Waiting(aiFaction)
            /\ \A i \in 1 .. Len(q), j \in 1 .. Len(q) :
                    /\ i # j => q[i] # q[j]
                    /\ (i < j /\ faction(q[i]) = faction(q[j])) => q[i] < q[j]
            /\ \A i \in 1 .. Len(q) :
                    i <= both =>
                        faction(q[i]) = IF i % 2 = 1 THEN playerFaction
                                        ELSE aiFaction
            /\ (\A u \in UnitIds : units[u] = FreshUnit) =>
                    /\ Len(q) = 2 * squadSize
                    /\ q[1] = 1
                    /\ \A i \in 1 .. (Len(q) - 1) :
                            faction(q[i]) # faction(q[i + 1])

C6_Witness ==
    /\ turn = 1
    /\ activationQueue = <<1, 2, 3, 4, 5, 6, 7, 8, 9, 10>>
    /\ \A u \in UnitIds : units[u] = FreshUnit

BothAlive(us) ==
    /\ \E u \in DOMAIN us : faction(u) = playerFaction /\ us[u].alive
    /\ \E u \in DOMAIN us : faction(u) = aiFaction /\ us[u].alive

C8_HpApBounds ==
    \A u \in UnitIds :
        /\ 0 <= units[u].hp /\ units[u].hp <= units[u].maxHp
        /\ 0 <= units[u].ap /\ units[u].ap <= units[u].maxAp

(* a unit has lost all its hp to a unit that has spent all its AP *)
C8_Witness ==
    \E u \in UnitIds, v \in UnitIds :
        /\ units[u].hp = 0 /\ ~units[u].alive
        /\ units[v].alive /\ units[v].ap = 0
        /\ faction(u) # faction(v)

(* C9: in every state, the suspension points inside an attack included, a  *)
(* unit with hp 0 is not alive and a unit that is not alive has status     *)
(* Dead.                                                                   *)
C9_DeadConsistent ==
    \A u \in UnitIds :
        /\ units[u].hp = 0 => ~units[u].alive
        /\ ~units[u].alive => units[u].status = DEAD

(* C10: a unit has an overwatch cone exactly when its status is Overwatch. *)
(* Stated for the runs in which every action command arrived in a phase    *)
(* that takes it.                                                          *)
C10_ConeIffOverwatch ==
    stray = 0 =>
        \A u \in UnitIds :
            units[u].overwatchCone # NoCone <=> units[u].status = OVERWATCH

(* C11: while no unit is moving, every entry of the occupancy names a      *)
(* living unit that stands on that tile, every living unit is the occupant *)
(* of the tile it stands on, and no dead unit is the occupant of a tile.   *)
C11_OccupancyAgreement ==
    (\A u \in UnitIds : ~units[u].isMoving) =>
        /\ \A e \in occupant :
                /\ e.unit \in UnitIds
                /\ units[e.unit].alive
                /\ tileOf(units, e.unit) = e.tile
        /\ \A u \in UnitIds :
                units[u].alive => getOccupant(occupant, tileOf(units, u)) = u
        /\ \A u \in UnitIds :
                ~units[u].alive => \A e \in occupant : e.unit # u

(* a step leaves every dead unit dead, with hp 0 and status Dead, on its   *)
(* tile, and starts no move of it                                          *)
DeadStaysDead ==
    \A u \in UnitIds :
        ~units[u].alive =>
            /\ ~units'[u].alive
            /\ units'[u].hp = 0
            /\ units'[u].status = DEAD
            /\ units'[u].tile = units[u].tile
            /\ units'[u].isMoving => units[u].isMoving

(* the activation begun, the attack called and the targets offered are of  *)
(* living units                                                            *)
DeadIsIdle ==
    /\ began.unit # NoUnit => units[began.unit].alive
    /\ fired.attacker # NoUnit => units[fired.attacker].alive
    /\ phase = PLAYER_TARGET_SELECT =>
            \A u \in validTargets : units[u].alive

(* C12: death is terminal: a dead unit stays dead with hp 0 and status     *)
(* Dead (turn resets and markActivated included), it begins no activation, *)
(* does not move, does not attack or fire overwatch, and is in no set of   *)
(* valid targets.                                                          *)
C12_DeathTerminal ==
    /\ [][DeadStaysDead]_vars
    /\ []DeadIsIdle

(* C13: when an executeAttack that hit and left its target at hp 0         *)
(* returns, it reports killed, the target is not alive and has status      *)
(* Dead, the tile the target stands on has no occupant and isWalkable is   *)
(* true of it.                                                             *)
C13_KillingBlow ==
    (attacked.attacker # NoUnit /\ attacked.hit
        /\ attacked.after.target.hp = 0) =>
        /\ attacked.killed
        /\ ~units[attacked.target].alive
        /\ units[attacked.target].status = DEAD
        /\ getOccupant(occupant, tileOf(units, attacked.target)) = NoUnit
        /\ isWalkable(occupant, tileOf(units, attacked.target))

(* C14: between its call and its return executeAttack takes exactly 1 AP   *)
(* from the attacker (not below 0) on a hit and on a miss; a miss leaves   *)
(* the target's hp, alive flag, status and tile occupancy as they were; a  *)
(* hit takes 4 (ranged) or 5 (melee) hp from the target, not below 0; the  *)
(* attacker's hp and position and the target's ap are as they were.        *)
C14_AttackFrame ==
    attacked.attacker # NoUnit =>
        LET b == attacked.before
            a == attacked.after
        IN  /\ a.attacker.ap = Max(0, b.attacker.ap - 1)
            /\ ~attacked.hit =>
                    /\ a.target.hp = b.target.hp
                    /\ a.target.alive = b.target.alive
                    /\ a.target.status = b.target.status
                    /\ a.targetAt = b.targetAt
            /\ attacked.hit =>
                    a.target.hp =
                        Max(0, b.target.hp -
                                (IF attacked.attackType = "ranged"
                                 THEN rangedDamage ELSE meleeDamage))
            /\ a.attacker.hp = b.attacker.hp
            /\ a.attacker.tile = b.attacker.tile
            /\ a.attackerAt = b.attackerAt
            /\ a.target.ap = b.target.ap

(* C15: executeAttack is called, by a target click, by the AI and by an    *)
(* overwatch shot, only for a living attacker that has at least 1 AP and   *)
(* a living target of the other faction.  Stated for the runs in which     *)
(* every action command arrived in a phase that takes it.                  *)
C15_AttackPreconditions ==
    (stray = 0 /\ fired.attacker # NoUnit) =>
        /\ units[fired.attacker].alive
        /\ units[fired.attacker].ap >= 1
        /\ units[fired.target].alive
        /\ faction(fired.target) # faction(fired.attacker)

(* the units whose awaited move is being resolved *)
Movers == {t.unit : t \in {m \in Pending : m.kind = "move"}}

----------------------------------------------------------------------------
(* Grid geometry (utils and GridManager).  A tile position is a record     *)
(* [col, row]; the objects of a map are a function from the positions that *)
(* hold one to the cover type setObject was given.  Chances are kept in    *)
(* hundredths: every modifier of the game is a multiple of 0.05.           *)

GridWidth == 10
GridHeight == 3

rangedAccuracy == 70
meleeAccuracy == 85
rangedRange == 8
COVER_BONUS_half == -25
COVER_BONUS_full == -50
FLANKING_BONUS == 15
MIN_HIT_CHANCE == 5
MAX_HIT_CHANCE == 95
nearMaxRangePenalty == -5
OVERWATCH_range == 8

Abs(x) == IF x < 0 THEN -x ELSE x

Tile(c, r) == [col |-> c, row |-> r]

GridTiles == {Tile(c, r) : c \in 0 .. GridWidth - 1, r \in 0 .. GridHeight - 1}

(* tileManhattan *)
tileManhattan(a, b) == Abs(a.col - b.col) + Abs(a.row - b.row)

tileDistance(a, b) == Max(Abs(a.col - b.col), Abs(a.row - b.row))

sign(d) == IF d = 0 THEN 0 ELSE IF d > 0 THEN 1 ELSE -1

getTileDirection(from, to) ==
    Tile(sign(to.col - from.col), sign(to.row - from.row))

clamp(value, min, max) == Max(min, Min(max, value))

(* the loop of bresenhamLine from (x0, y0) with error term err; l holds    *)
(* the values fixed before the loop                                        *)
RECURSIVE bresenhamLoop(_, _, _, _)
bresenhamLoop(x0, y0, err, l) ==
    IF x0 = l.x1 /\ y0 = l.y1 THEN <<>>
    ELSE LET e2 == 2 * err
             stepX == e2 > -l.dy
             stepY == e2 < l.dx
             nx == IF stepX THEN x0 + l.sx ELSE x0
             ny == IF stepY THEN y0 + l.sy ELSE y0
             nerr == err - (IF stepX THEN l.dy ELSE 0)
                         + (IF stepY THEN l.dx ELSE 0)
         IN  <<Tile(nx, ny)>> \o bresenhamLoop(nx, ny, nerr, l)

bresenhamLine(start, end) ==
    LET dx == Abs(end.col - start.col)
        dy == Abs(end.row - start.row)
    IN  bresenhamLoop(start.col, start.row, dx - dy,
                      [x1 |-> end.col, y1 |-> end.row, dx |-> dx, dy |-> dy,
                       sx |-> IF start.col < end.col THEN 1 ELSE -1,
                       sy |-> IF start.row < end.row THEN 1 ELSE -1])

NullTile == [coverType |-> "null", objectType |-> FALSE]

(* a tile's cover data: those of createGrid unless setObject placed an     *)
(* object there; NullTile outside the grid                                 *)
getTile(objects, col, row) ==
    IF col < 0 \/ col >= GridWidth \/ row < 0 \/ row >= GridHeight
    THEN NullTile
    ELSE IF Tile(col, row) \in DOMAIN objects
         THEN [coverType |-> objects[Tile(col, row)], objectType |-> TRUE]
         ELSE [coverType |-> "none", objectType |-> FALSE]

(* any object taken for full cover *)
fullObject_AnyCover(tile) == tile.objectType

(* flanking from behind only *)
checkFlanking_RearOnly(attackerTile, targetTile, targetFacing) ==
    LET toAttacker == getTileDirection(targetTile, attackerTile)
    IN  targetFacing.col * toAttacker.col
        + targetFacing.row * toAttacker.row < 0

fullObject(tile) == tile.coverType = "full" /\ tile.objectType
halfObject(tile) == tile.coverType = "half" /\ tile.objectType

getCoverBetween(objects, attackerTile, targetTile) ==
    LET dir == getTileDirection(attackerTile, targetTile)
        checkPositions ==
            (IF dir.col # 0
             THEN {Tile(targetTile.col - dir.col, targetTile.row)} ELSE {})
            \cup (IF dir.row # 0
                  THEN {Tile(targetTile.col, targetTile.row - dir.row)}
                  ELSE {})
            \cup (IF dir.col # 0 /\ dir.row # 0
                  THEN {Tile(targetTile.col - dir.col,
                             targetTile.row - dir.row)}
                  ELSE {})
        found == {getTile(objects, p.col, p.row) : p \in checkPositions}
    IN  IF \E t \in found : fullObject(t)
        THEN [coverType |-> "full", penalty |-> COVER_BONUS_full]
        ELSE IF \E t \in found : halfObject(t)
        THEN [coverType |-> "half", penalty |-> COVER_BONUS_half]
        ELSE [coverType |-> "none", penalty |-> 0]

checkLOS(objects, from, to) ==
    LET lineTiles == bresenhamLine(from, to)
        blocked == \E i \in 1 .. Len(lineTiles) :
                       /\ lineTiles[i] # to
                       /\ fullObject(getTile(objects, lineTiles[i].col,
                                             lineTiles[i].row))
        coverResult == getCoverBetween(objects, from, to)
    IN  IF blocked
        THEN [clear |-> FALSE, coverPenalty |-> 0, coverType |-> "blocked"]
        ELSE [clear |-> TRUE, coverPenalty |-> coverResult.penalty,
              coverType |-> coverResult.coverType]

checkFlanking(attackerTile, targetTile, targetFacing) ==
    LET toAttacker == getTileDirection(targetTile, attackerTile)
        dot == targetFacing.col * toAttacker.col
               + targetFacing.row * toAttacker.row
    IN  dot <= 0

----------------------------------------------------------------------------
(* CombatSystem.calculateHitChance.  The breakdown is a function whose     *)
(* domain is the set of fields the code has assigned.                      *)

Field(present, name, value) ==
    IF present THEN name :> value ELSE <<>>

NoBreakdown == <<>>

(* a clamp that only caps the chance *)
clampChance_NoFloor(chance) == Min(MAX_HIT_CHANCE, chance)

clampChance(chance) == clamp(chance, MIN_HIT_CHANCE, MAX_HIT_CHANCE)

calculateHitChance(objects, attacker, target, attackType) ==
    LET los == checkLOS(objects, attacker.tile, target.tile)
        covered == los.coverPenalty # 0
        hunkered == target.status = HUNKERED /\ los.coverPenalty # 0
        flanked == checkFlanking(attacker.tile, target.tile, target.facing)
        far == tileDistance(attacker.tile, target.tile) >= rangedRange - 1
        ranged == rangedAccuracy
                  + (IF covered THEN los.coverPenalty ELSE 0)
                  + (IF hunkered THEN los.coverPenalty ELSE 0)
                  + (IF flanked THEN FLANKING_BONUS ELSE 0)
                  + (IF far THEN nearMaxRangePenalty ELSE 0)
        melee == meleeAccuracy + (IF flanked THEN FLANKING_BONUS ELSE 0)
    IN  CASE attackType = "ranged" ->
               [chance |-> clampChance(ranged),
                breakdown |->
                    ("base" :> rangedAccuracy)
                    @@ Field(covered, "coverPenalty", los.coverPenalty)
                    @@ Field(covered, "coverType", los.coverType)
                    @@ Field(hunkered, "hunkeredPenalty", los.coverPenalty)
                    @@ Field(flanked, "flankingBonus", FLANKING_BONUS)
                    @@ Field(far, "rangePenalty", nearMaxRangePenalty)
                    @@ ("damage" :> rangedDamage)
                    @@ ("final" :> clampChance(ranged))]
          [] attackType = "melee" ->
               [chance |-> clampChance(melee),
                breakdown |->
                    ("base" :> meleeAccuracy)
                    @@ Field(flanked, "flankingBonus", FLANKING_BONUS)
                    @@ ("damage" :> meleeDamage)
                    @@ ("final" :> clampChance(melee))]
          [] OTHER -> [chance |-> 0, breakdown |-> NoBreakdown]

----------------------------------------------------------------------------
(* The hit chance over the scenes of a small grid: a target on one of      *)
(* TargetTiles, an attacker anywhere else, and objects on some of          *)
(* ObjectTiles.                                                            *)

TargetTiles == {Tile(8, 1), Tile(4, 1)}

ObjectTiles == {Tile(7, 1), Tile(7, 0), Tile(5, 1)}

CoverTypes == {"half", "full"}

Facings == {Tile(1, 0), Tile(-1, 0), Tile(0, 1), Tile(-1, -1)}

AttackTypes == {"ranged", "melee"}

Placements ==
    UNION {[S -> CoverTypes] : S \in SUBSET ObjectTiles}

(* the game the geometry is computed outside of: nothing constructed *)
NoGame ==
    /\ units = <<>>
    /\ phase = PLAYER_SELECT_UNIT
    /\ activeUnit = NoUnit
    /\ activationQueue = <<>>
    /\ currentActivationIndex = 0
    /\ turn = 0
    /\ validTargets = {}
    /\ pendingAttackType = "none"
    /\ inputEnabled = FALSE
    /\ tasks = EmptyBag
    /\ winner = NoFaction
    /\ began = NoBegin
    /\ lastFaction = NoFaction
    /\ missed = {}
    /\ endCount = <<>>
    /\ stray = 0
    /\ attacks = 0
    /\ commands = 0
    /\ activations = 0
    /\ occupant = {}
    /\ fired = NoFired
    /\ attacked = NoAttacked
    /\ moved = NoMoved

game == <<units, phase, activeUnit, activationQueue, currentActivationIndex,
          turn, validTargets, pendingAttackType, inputEnabled, tasks, winner,
          began, lastFaction, missed, endCount, stray, attacks, commands,
          activations, occupant, fired, attacked, moved>>

InitHit ==
    /\ NoGame
    /\ \E objects \in Placements, target \in TargetTiles,
          attacker \in GridTiles, facing \in Facings,
          status \in {READY, HUNKERED}, attackType \in AttackTypes :
            /\ attacker # target
            /\ {attacker, target} \cap DOMAIN objects = {}
            /\ scene = [kind |-> "hit", objects |-> objects,
                        attacker |-> [tile |-> attacker],
                        target |-> [tile |-> target, facing |-> facing,
                                    status |-> status],
                        attackType |-> attackType]
    /\ outcome = NoOutcome

HitChanceCalculated ==
    /\ scene.kind = "hit"
    /\ outcome = NoOutcome
    /\ outcome' = [kind |-> "hit"]
                   @@ calculateHitChance(scene.objects, scene.attacker,
                                         scene.target, scene.attackType)
    /\ UNCHANGED <<game, scene>>

NextHit == HitChanceCalculated

SpecHit == InitHit /\ [][NextHit]_vars

(* C16: whatever the attack type, cover, stance of the target, flank and   *)
(* distance, the chance calculateHitChance returns lies between            *)
(* MIN_HIT_CHANCE and MAX_HIT_CHANCE.                                      *)
C16_HitChanceClamped ==
    outcome.kind = "hit" =>
        /\ outcome.chance >= MIN_HIT_CHANCE
        /\ outcome.chance <= MAX_HIT_CHANCE

(* a far shot at a hunkered target behind full cover: the modifiers sum    *)
(* to less than MIN_HIT_CHANCE and the chance returned is MIN_HIT_CHANCE   *)
C16_Witness ==
    /\ outcome.kind = "hit"
    /\ scene.attackType = "ranged"
    /\ scene.target.status = HUNKERED
    /\ checkLOS(scene.objects, scene.attacker.tile,
                scene.target.tile).coverType = "full"
    /\ "rangePenalty" \in DOMAIN outcome.breakdown
    /\ outcome.breakdown["base"] + 2 * outcome.breakdown["coverPenalty"]
          + outcome.breakdown["rangePenalty"] < MIN_HIT_CHANCE
    /\ outcome.chance = MIN_HIT_CHANCE

(* the quantities the ranged formula is stated over *)
Chebyshev ==
    LET dc == scene.attacker.tile.col - scene.target.tile.col
        dr == scene.attacker.tile.row - scene.target.tile.row
    IN  IF Abs(dc) > Abs(dr) THEN Abs(dc) ELSE Abs(dr)

Cover == checkLOS(scene.objects, scene.attacker.tile, scene.target.tile)

Flanked ==
    checkFlanking(scene.attacker.tile, scene.target.tile, scene.target.facing)

ScenarioA ==
    /\ outcome.kind = "hit"
    /\ scene.attackType = "ranged"
    /\ Cover.coverType = "half"
    /\ ~Flanked
    /\ scene.target.status # HUNKERED
    /\ Chebyshev < rangedRange - 1

(* C17: the ranged chance is the clamped sum of the base accuracy, the     *)
(* cover penalty, the cover penalty once more for a hunkered target behind *)
(* cover, the flanking bonus and the near-max-range penalty at Chebyshev   *)
(* distance rangedRange - 1 or more; a hunkered target without cover gets  *)
(* no extra penalty; Scenario A yields base - 0.25 with exactly the fields *)
(* base, coverPenalty, coverType, damage and final.                        *)
C17_RangedHitChance ==
    (outcome.kind = "hit" /\ scene.attackType = "ranged") =>
        /\ outcome.chance =
              clamp(rangedAccuracy + Cover.coverPenalty
                    + (IF scene.target.status = HUNKERED
                          /\ Cover.coverPenalty # 0
                       THEN Cover.coverPenalty ELSE 0)
                    + (IF Flanked THEN FLANKING_BONUS ELSE 0)
                    + (IF Chebyshev >= rangedRange - 1
                       THEN nearMaxRangePenalty ELSE 0),
                    MIN_HIT_CHANCE, MAX_HIT_CHANCE)
        /\ (scene.target.status = HUNKERED /\ Cover.coverPenalty = 0) =>
              /\ "hunkeredPenalty" \notin DOMAIN outcome.breakdown
              /\ outcome.chance =
                    calculateHitChance(scene.objects, scene.attacker,
                                       [scene.target EXCEPT !.status = READY],
                                       "ranged").chance
        /\ ScenarioA =>
              /\ outcome.chance = rangedAccuracy + COVER_BONUS_half
              /\ outcome.breakdown =
                    [base |-> rangedAccuracy,
                     coverPenalty |-> COVER_BONUS_half,
                     coverType |-> "half", damage |-> rangedDamage,
                     final |-> rangedAccuracy + COVER_BONUS_half]

(* Scenario A has been computed *)
C17_Witness ==
    /\ ScenarioA
    /\ outcome.chance = 45

----------------------------------------------------------------------------
(* CombatSystem.checkOverwatch over the scenes of the small grid: a mover  *)
(* (unit 1) stepping from fromTile to toTile, an enemy (unit 2) that may   *)
(* be watching, and a comrade of the mover (unit 3) in Overwatch.  In a    *)
(* scene a cone is the sequence of the one direction recorded; the null    *)
(* cone is the empty sequence.                                             *)

NullCone == <<>>

(* checkOverwatch testing the step's direction against the cone *)
checkOverwatch_ByMovement(us, objects, movingUnit, fromTile, toTile) ==
    {e \in overwatchCandidates(us, movingUnit) :
        /\ tileDistance(us[e].tile, toTile) <= OVERWATCH_range
        /\ checkLOS(objects, us[e].tile, toTile).clear
        /\ us[e].overwatchCone # NullCone =>
             LET dir == getTileDirection(fromTile, toTile)
                 cone == us[e].overwatchCone[1]
             IN  dir.col * cone.col + dir.row * cone.row >= 0}

(* checkOverwatch without the range test *)
checkOverwatch_AnyRange(us, objects, movingUnit, fromTile, toTile) ==
    {e \in overwatchCandidates(us, movingUnit) :
        /\ checkLOS(objects, us[e].tile, toTile).clear
        /\ us[e].overwatchCone # NullCone =>
             LET cone == us[e].overwatchCone[1]
             IN  (toTile.col - us[e].tile.col) * cone.col
                 + (toTile.row - us[e].tile.row) * cone.row >= 0}

checkOverwatch(us, objects, movingUnit, fromTile, toTile) ==
    {enemy \in overwatchCandidates(us, movingUnit) :
        /\ tileDistance(us[enemy].tile, toTile) <= OVERWATCH_range
        /\ checkLOS(objects, us[enemy].tile, toTile).clear
        /\ us[enemy].overwatchCone # NullCone =>
             LET dx == toTile.col - us[enemy].tile.col
                 dz == toTile.row - us[enemy].tile.row
                 cone == us[enemy].overwatchCone[1]
                 facingDot == dx * cone.col + dz * cone.row
             IN  facingDot >= 0}

Mover == 1
Enemy == 2
Comrade == 3

WatcherTiles == {Tile(0, 1), Tile(4, 1)}

ComradeTile == Tile(5, 0)

BlockTiles == {Tile(3, 1), Tile(6, 2)}

Cones == {<<Tile(1, 0)>>, <<Tile(-1, 0)>>, <<Tile(0, 1)>>, <<Tile(1, 1)>>}

Watching(tile, cone) ==
    [alive |-> TRUE, status |-> OVERWATCH, overwatchCone |-> cone,
     tile |-> tile]

Standing(tile) ==
    [alive |-> TRUE, status |-> READY, overwatchCone |-> NullCone,
     tile |-> tile]

Fallen(tile) ==
    [alive |-> FALSE, status |-> DEAD, overwatchCone |-> NullCone,
     tile |-> tile]

Enemies ==
    {Watching(w, c) : w \in WatcherTiles, c \in Cones}
    \cup {Standing(w) : w \in WatcherTiles}
    \cup {Fallen(w) : w \in WatcherTiles}

Blocks ==
    {<<>>} \cup {b :> k : b \in BlockTiles, k \in CoverTypes}

Neighbours(t) ==
    {n \in GridTiles : tileDistance(n, t) = 1}

InitOverwatch ==
    /\ NoGame
    /\ \E enemy \in Enemies, objects \in Blocks, toTile \in GridTiles :
          \E fromTile \in Neighbours(toTile) :
            LET taken == DOMAIN objects \cup {enemy.tile, ComradeTile}
            IN  /\ {fromTile, toTile} \cap taken = {}
                /\ enemy.tile \notin DOMAIN objects
                /\ scene = [kind |-> "overwatch", objects |-> objects,
                            units |-> <<Standing(toTile), enemy,
                                        Watching(ComradeTile,
                                                 <<Tile(1, 0)>>)>>,
                            fromTile |-> fromTile, toTile |-> toTile]
    /\ outcome = NoOutcome

OverwatchChecked ==
    /\ scene.kind = "overwatch"
    /\ outcome = NoOutcome
    /\ outcome' = [kind |-> "overwatch",
                   triggers |-> checkOverwatch(scene.units, scene.objects,
                                               Mover, scene.fromTile,
                                               scene.toTile)]
    /\ UNCHANGED <<game, scene>>

NextOverwatch == OverwatchChecked

SpecOverwatch == InitOverwatch /\ [][NextOverwatch]_vars

(* the enemy of the scene, and what the conditions are stated over *)
Watcher == scene.units[Enemy]

WatcherQualifies ==
    /\ Watcher.alive
    /\ Watcher.status = OVERWATCH
    /\ tileDistance(Watcher.tile, scene.toTile) <= OVERWATCH_range
    /\ checkLOS(scene.objects, Watcher.tile, scene.toTile).clear

MovementDot ==
    LET dir == getTileDirection(scene.fromTile, scene.toTile)
    IN  dir.col * Watcher.overwatchCone[1].col
        + dir.row * Watcher.overwatchCone[1].row

PositionDot ==
    (scene.toTile.col - Watcher.tile.col) * Watcher.overwatchCone[1].col
    + (scene.toTile.row - Watcher.tile.row) * Watcher.overwatchCone[1].row

(* C18 as stated: the watchers returned are the living enemies in          *)
(* Overwatch within range of toTile and with clear line of sight to it     *)
(* whose cone, if any, has a non-negative dot product with the normalized  *)
(* direction of the step from fromTile to toTile.                          *)
C18_ConeByMovement ==
    outcome.kind = "overwatch" =>
        outcome.triggers =
            IF /\ WatcherQualifies
               /\ Watcher.overwatchCone # NullCone => MovementDot >= 0
            THEN {Enemy} ELSE {}

(* C18 amended: the cone test is made on the offset of toTile from the     *)
(* watcher's own tile, not normalized; fromTile plays no part.             *)
C18_ConeByPosition ==
    outcome.kind = "overwatch" =>
        outcome.triggers =
            IF /\ WatcherQualifies
               /\ Watcher.overwatchCone # NullCone => PositionDot >= 0
            THEN {Enemy} ELSE {}

(* a step away from the watcher's cone onto a tile in front of the         *)
(* watcher has triggered it                                                *)
C18_Witness ==
    /\ outcome.kind = "overwatch"
    /\ WatcherQualifies
    /\ MovementDot < 0
    /\ PositionDot > 0
    /\ outcome.triggers = {Enemy}

(* C19 (Scenario B): a watcher with cone (1,0), nothing in the way: a      *)
(* step onto a tile within range in direction (1,0) from the watcher       *)
(* triggers it, a step onto a tile in direction (-1,0) from it does not,   *)
(* whatever the direction of the step.                                     *)
C19_OverwatchArc ==
    (/\ outcome.kind = "overwatch"
     /\ Watcher.alive
     /\ Watcher.status = OVERWATCH
     /\ Watcher.overwatchCone = <<Tile(1, 0)>>
     /\ scene.objects = <<>>) =>
        /\ (/\ getTileDirection(Watcher.tile, scene.toTile) = Tile(1, 0)
            /\ tileDistance(Watcher.tile, scene.toTile) <= OVERWATCH_range)
              => Enemy \in outcome.triggers
        /\ getTileDirection(Watcher.tile, scene.toTile) = Tile(-1, 0)
              => Enemy \notin outcome.triggers

(* the watcher faces (1,0); the mover has stepped towards it onto a tile   *)
(* in direction (1,0) from it, and it has triggered                        *)
C19_Witness ==
    /\ outcome.kind = "overwatch"
    /\ Watcher.status = OVERWATCH
    /\ Watcher.overwatchCone = <<Tile(1, 0)>>
    /\ scene.objects = <<>>
    /\ getTileDirection(Watcher.tile, scene.toTile) = Tile(1, 0)
    /\ getTileDirection(scene.fromTile, scene.toTile) = Tile(-1, 0)
    /\ Enemy \in outcome.triggers

----------------------------------------------------------------------------
(* C21: the overwatch shots of a path step are fired while the mover       *)
(* stands on that step's tile: when executeOverwatchShot calls             *)
(* executeAttack for step i the mover has walked no step beyond i, and a   *)
(* mover the shot kills has no step of its path beyond i behind it.        *)
(* Stated for the runs in which every command arrived in a phase that     *)
(* permits it.                                                             *)
C21_InterleavedInPathOrder ==
    stray = 0 =>
        /\ fired.overwatch => fired.stepsLeft = 0
        /\ (attacked.overwatch /\ attacked.killed) => attacked.stepsLeft = 0

(* C22: for every unit that has walked a path, player's or AI's, each      *)
(* enemy watcher whose trigger conditions a step of the path met fires an  *)
(* overwatch shot at it.  Stated for the runs in which every command       *)
(* arrived in a phase that permits it.                                     *)
C22_OverwatchBothFactions ==
    stray = 0 => moved.watchers \subseteq moved.shots

----------------------------------------------------------------------------
(* GridManager pathfinding.  A grid is a record of its size, the tiles an  *)
(* object has made non-walkable (`blocked`) and the tiles that have an     *)
(* occupant.                                                               *)

PathWidth == 4
PathHeight == 3

Offsets ==
    <<Tile(-1, -1), Tile(-1, 0), Tile(-1, 1), Tile(0, -1), Tile(0, 1),
      Tile(1, -1), Tile(1, 0), Tile(1, 1)>>

InBounds(g, col, row) ==
    col >= 0 /\ col < g.gridWidth /\ row >= 0 /\ row < g.gridHeight

(* getNeighbors, in the order of its two loops *)
getNeighbors(col, row, gridWidth, gridHeight) ==
    LET all == [i \in 1 .. 8 |-> Tile(col + Offsets[i].col,
                                      row + Offsets[i].row)]
        inside(t) == t.col >= 0 /\ t.col < gridWidth
                 /\ t.row >= 0 /\ t.row < gridHeight
    IN  SelectSeq(all, inside)

(* isWalkable that does not look at the occupant *)
gridWalkable_AnyOccupant(g, col, row) ==
    /\ InBounds(g, col, row)
    /\ Tile(col, row) \notin g.blocked

gridWalkable(g, col, row) ==
    /\ InBounds(g, col, row)
    /\ Tile(col, row) \notin g.blocked
    /\ Tile(col, row) \notin g.occupied

isWalkableIgnoreOccupant(g, col, row) ==
    /\ InBounds(g, col, row)
    /\ Tile(col, row) \notin g.blocked

(* a search that lets diagonal steps cut corners *)
cornerFree_Cut(g, current, neighbor) ==
    TRUE

(* the corner test both searches make for a step from current to neighbor *)
cornerFree(g, current, neighbor) ==
    LET dc == neighbor.col - current.col
        dr == neighbor.row - current.row
    IN  (dc # 0 /\ dr # 0) =>
            /\ isWalkableIgnoreOccupant(g, current.col + dc, current.row)
            /\ isWalkableIgnoreOccupant(g, current.col, current.row + dr)

(* the for loop of getMovementRange over the neighbors from index i on;    *)
(* w holds the visited set and the queue                                   *)
RECURSIVE rangeNeighbors(_, _, _, _, _)
rangeNeighbors(g, current, neighbors, i, w) ==
    IF i > Len(neighbors) THEN w
    ELSE LET neighbor == neighbors[i]
         IN  IF \/ neighbor \in w.visited
                \/ ~gridWalkable(g, neighbor.col, neighbor.row)
                \/ ~cornerFree(g, current, neighbor)
             THEN rangeNeighbors(g, current, neighbors, i + 1, w)
             ELSE rangeNeighbors(g, current, neighbors, i + 1,
                      [visited |-> w.visited \cup {neighbor},
                       queue |-> Append(w.queue,
                                        [col |-> neighbor.col,
                                         row |-> neighbor.row,
                                         cost |-> current.cost + 1])])

(* the while loop of getMovementRange *)
RECURSIVE rangeLoop(_, _, _, _)
rangeLoop(g, moveRange, w, reachable) ==
    IF w.queue = <<>> THEN reachable
    ELSE LET current == Head(w.queue)
             rest == [w EXCEPT !.queue = Tail(@)]
             found == IF current.cost > 0 THEN Append(reachable, current)
                      ELSE reachable
         IN  IF current.cost >= moveRange
             THEN rangeLoop(g, moveRange, rest, found)
             ELSE rangeLoop(g, moveRange,
                      rangeNeighbors(g, current,
                          getNeighbors(current.col, current.row,
                                       g.gridWidth, g.gridHeight),
                          1, rest),
                      found)

getMovementRange(g, startCol, startRow, moveRange) ==
    rangeLoop(g, moveRange,
              [visited |-> {Tile(startCol, startRow)},
               queue |-> <<[col |-> startCol, row |-> startRow, cost |-> 0]>>],
              <<>>)

NoPath == [found |-> FALSE, path |-> <<>>]

(* the for loop of _findPathBFS over the neighbors from index i on; w      *)
(* holds visited, queue, cameFrom and found                                *)
RECURSIVE pathNeighbors(_, _, _, _, _, _)
pathNeighbors(g, end, current, neighbors, i, w) ==
    IF i > Len(neighbors) THEN w
    ELSE LET neighbor == neighbors[i]
         IN  IF \/ neighbor \in w.visited
                \/ ~gridWalkable(g, neighbor.col, neighbor.row)
                \/ ~cornerFree(g, current, neighbor)
             THEN pathNeighbors(g, end, current, neighbors, i + 1, w)
             ELSE LET v == [w EXCEPT !.visited = @ \cup {neighbor},
                                     !.cameFrom = (neighbor :> current) @@ @]
                  IN  IF neighbor = end
                      THEN [v EXCEPT !.found = TRUE]
                      ELSE pathNeighbors(g, end, current, neighbors, i + 1,
                               [v EXCEPT !.queue = Append(@, neighbor)])

(* the while loop of _findPathBFS *)
RECURSIVE pathLoop(_, _, _)
pathLoop(g, end, w) ==
    IF w.queue = <<>> \/ w.found THEN w
    ELSE LET current == Head(w.queue)
             rest == [w EXCEPT !.queue = Tail(@)]
         IN  IF current = end THEN [rest EXCEPT !.found = TRUE]
             ELSE pathLoop(g, end,
                      pathNeighbors(g, end, current,
                          getNeighbors(current.col, current.row,
                                       g.gridWidth, g.gridHeight),
                          1, rest))

(* the loop that walks cameFrom back from the end *)
RECURSIVE pathBack(_, _, _, _)
pathBack(cameFrom, start, current, path) ==
    IF current = start THEN [found |-> TRUE, path |-> path]
    ELSE IF current \notin DOMAIN cameFrom THEN NoPath
    ELSE pathBack(cameFrom, start, cameFrom[current], <<current>> \o path)

(* findPath: _findPathBFS with allowDestinationOccupied = false *)
findPath(g, start, end) ==
    IF start = end THEN [found |-> TRUE, path |-> <<>>]
    ELSE IF ~gridWalkable(g, end.col, end.row) THEN NoPath
    ELSE LET w == pathLoop(g, end,
                      [visited |-> {start}, queue |-> <<start>>,
                       cameFrom |-> <<>>, found |-> FALSE])
         IN  IF ~w.found THEN NoPath
             ELSE pathBack(w.cameFrom, start, end, <<>>)

----------------------------------------------------------------------------
(* Pathfinding over the grids of a small map: objects on some of           *)
(* WallTiles, other units on some of UnitTiles, the unit that asks on one  *)
(* of Origins (its own tile has it as occupant).                           *)

PathTiles ==
    {Tile(c, r) : c \in 0 .. PathWidth - 1, r \in 0 .. PathHeight - 1}

WallTiles == {Tile(1, 0), Tile(1, 1), Tile(2, 1), Tile(2, 2), Tile(3, 1)}

UnitTiles == {Tile(0, 1), Tile(1, 2), Tile(2, 0)}

Origins == {Tile(0, 0), Tile(1, 1)}

MoveRanges == {1, 2, UNIT_STATS_movement}

InitGrid ==
    /\ NoGame
    /\ \E blocked \in SUBSET WallTiles, others \in SUBSET UnitTiles,
          origin \in Origins, moveRange \in MoveRanges :
            /\ origin \notin blocked
            /\ scene = [kind |-> "grid",
                        grid |-> [gridWidth |-> PathWidth,
                                  gridHeight |-> PathHeight,
                                  blocked |-> blocked,
                                  occupied |-> others \cup {origin}],
                        origin |-> origin, moveRange |-> moveRange]
    /\ outcome = NoOutcome

MovementRangeShown ==
    /\ scene.kind = "grid"
    /\ outcome = NoOutcome
    /\ outcome' = [kind |-> "range",
                   range |-> getMovementRange(scene.grid, scene.origin.col,
                                              scene.origin.row,
                                              scene.moveRange)]
    /\ UNCHANGED <<game, scene>>

PathsFound ==
    /\ outcome.kind = "range"
    /\ outcome' = [kind |-> "paths", range |-> outcome.range,
                   paths |-> [t \in PathTiles |->
                                 findPath(scene.grid, scene.origin, t)]]
    /\ UNCHANGED <<game, scene>>

NextGrid == MovementRangeShown \/ PathsFound

SpecGrid == InitGrid /\ [][NextGrid]_vars

(* a step the rules allow: onto an 8-adjacent tile that is walkable and    *)
(* has no occupant, not cutting a corner of a non-walkable tile            *)
Step(a, b) ==
    /\ b \in PathTiles
    /\ b # a
    /\ Abs(a.col - b.col) <= 1
    /\ Abs(a.row - b.row) <= 1
    /\ b \notin scene.grid.blocked \cup scene.grid.occupied
    /\ (a.col # b.col /\ a.row # b.row) =>
          /\ Tile(b.col, a.row) \notin scene.grid.blocked
          /\ Tile(a.col, b.row) \notin scene.grid.blocked

(* the tiles a path of at most k steps from the origin ends on *)
RECURSIVE Within(_)
Within(k) ==
    IF k = 0 THEN {scene.origin}
    ELSE LET near == Within(k - 1)
         IN  near \cup {b \in PathTiles : \E a \in near : Step(a, b)}

(* the shortest path cost of a tile of Within(moveRange) *)
TrueCost(t) ==
    CHOOSE k \in 0 .. scene.moveRange :
        t \in Within(k) /\ \A j \in 0 .. k - 1 : t \notin Within(j)

RangeTiles == {Tile(e.col, e.row) : e \in {outcome.range[i] : i \in DOMAIN outcome.range}}

CostOf(t) ==
    (CHOOSE e \in {outcome.range[i] : i \in DOMAIN outcome.range} :
        Tile(e.col, e.row) = t).cost

(* C23: getMovementRange returns exactly the tiles other than the origin   *)
(* whose shortest path cost from the origin is between 1 and the move      *)
(* range, each once and with that cost.                                    *)
C23_BFSOptimality ==
    outcome.kind = "range" =>
        /\ RangeTiles = Within(scene.moveRange) \ {scene.origin}
        /\ \A i \in DOMAIN outcome.range :
              LET e == outcome.range[i]
              IN  /\ e.cost = TrueCost(Tile(e.col, e.row))
                  /\ e.cost >= 1
                  /\ e.cost <= scene.moveRange
        /\ Cardinality(RangeTiles) = Len(outcome.range)

(* on a grid with objects and other units, a tile has been given a cost   *)
(* above its distance, the move range itself, and a free tile one allowed  *)
(* step beyond the range has been left out                                 *)
C23_Witness ==
    /\ outcome.kind = "range"
    /\ \E t \in RangeTiles :
          /\ CostOf(t) > tileDistance(scene.origin, t)
          /\ CostOf(t) = scene.moveRange
    /\ \E t \in PathTiles \ RangeTiles :
          /\ t \notin scene.grid.blocked \cup scene.grid.occupied
          /\ \E a \in RangeTiles : Step(a, t)
    /\ scene.grid.blocked # {}
    /\ scene.grid.occupied # {scene.origin}

ValidPath(path, end) ==
    /\ path[Len(path)] = end
    /\ \A i \in 1 .. Len(path) :
          Step(IF i = 1 THEN scene.origin ELSE path[i - 1], path[i])

(* C24: for every tile of the movement range, with cost c, findPath from   *)
(* the origin returns a path of exactly c tiles that ends on it and        *)
(* advances by allowed steps; findPath to the origin itself returns the    *)
(* empty path; findPath to a non-walkable or occupied tile returns none.   *)
C24_PathAgreesWithRange ==
    outcome.kind = "paths" =>
        /\ \A t \in RangeTiles :
              /\ outcome.paths[t].found
              /\ Len(outcome.paths[t].path) = CostOf(t)
              /\ ValidPath(outcome.paths[t].path, t)
        /\ outcome.paths[scene.origin] = [found |-> TRUE, path |-> <<>>]
        /\ \A t \in (scene.grid.blocked \cup scene.grid.occupied)
                        \ {scene.origin} :
              outcome.paths[t] = NoPath

(* paths have been found for a range in which some tile costs more than    *)
(* its distance, with objects and units on the grid                        *)
C24_Witness ==
    /\ outcome.kind = "paths"
    /\ \E t \in RangeTiles :
          /\ CostOf(t) > tileDistance(scene.origin, t)
          /\ Len(outcome.paths[t].path) = CostOf(t)
    /\ scene.grid.blocked # {}
    /\ scene.grid.occupied # {scene.origin}

----------------------------------------------------------------------------
(* Line of sight and flanking over the scenes of the small grid: an        *)
(* attacker on one of SightTiles, a target tile anywhere else, the         *)
(* target's facing, objects on some of ObjectTiles and possibly a third    *)
(* unit standing on BystanderTile.                                         *)

SightTiles == {Tile(0, 1), Tile(4, 0), Tile(9, 2)}

BystanderTile == Tile(6, 1)

AllFacings == {Tile(c, r) : c \in -1 .. 1, r \in -1 .. 1} \ {Tile(0, 0)}

InitSight ==
    /\ NoGame
    /\ \E objects \in Placements, from \in SightTiles, to \in GridTiles,
          facing \in AllFacings, bystanders \in SUBSET {BystanderTile} :
            /\ from # to
            /\ from \notin DOMAIN objects
            /\ bystanders \cap (DOMAIN objects \cup {from, to}) = {}
            /\ scene = [kind |-> "sight", objects |-> objects,
                        occupied |-> bystanders \cup {from, to},
                        from |-> from, to |-> to, facing |-> facing]
    /\ outcome = NoOutcome

LOSChecked ==
    /\ scene.kind = "sight"
    /\ outcome = NoOutcome
    /\ outcome' = [kind |-> "los",
                   los |-> checkLOS(scene.objects, scene.from, scene.to)]
    /\ UNCHANGED <<game, scene>>

FlankingChecked ==
    /\ outcome.kind = "los"
    /\ outcome' = [kind |-> "flank", los |-> outcome.los,
                   flanked |-> checkFlanking(scene.from, scene.to,
                                             scene.facing)]
    /\ UNCHANGED <<game, scene>>

NextSight == LOSChecked \/ FlankingChecked

SpecSight == InitSight /\ [][NextSight]_vars

(* the tiles of the traced line strictly between the two ends *)
Between ==
    {t \in {bresenhamLine(scene.from, scene.to)[i] :
               i \in 1 .. Len(bresenhamLine(scene.from, scene.to))} :
        t # scene.from /\ t # scene.to}

FullCoverAt(t) == t \in DOMAIN scene.objects /\ scene.objects[t] = "full"

(* C25: checkLOS returns clear = false, with marker 'blocked' and no       *)
(* penalty, exactly when a tile of the traced line strictly between the    *)
(* two ends holds a full-cover object; otherwise clear = true with the     *)
(* cover type and penalty of getCoverBetween.  The target tile, half       *)
(* cover and tiles with units do not block.                                *)
C25_LOSBlocking ==
    outcome.kind = "los" =>
        IF \E t \in Between : FullCoverAt(t)
        THEN outcome.los = [clear |-> FALSE, coverPenalty |-> 0,
                            coverType |-> "blocked"]
        ELSE LET cover == getCoverBetween(scene.objects, scene.from,
                                          scene.to)
             IN  outcome.los = [clear |-> TRUE,
                                coverPenalty |-> cover.penalty,
                                coverType |-> cover.coverType]

(* the line is clear although the target tile holds a full-cover object,   *)
(* a half-cover object lies on the line and a unit stands on it            *)
C25_Witness ==
    /\ outcome.kind = "los"
    /\ outcome.los.clear
    /\ FullCoverAt(scene.to)
    /\ \E t \in Between :
          t \in DOMAIN scene.objects /\ scene.objects[t] = "half"
    /\ BystanderTile \in Between \cap scene.occupied

(* the sign-normalized direction from the target to the attacker *)
ToAttacker ==
    Tile(IF scene.from.col > scene.to.col THEN 1
         ELSE IF scene.from.col < scene.to.col THEN -1 ELSE 0,
         IF scene.from.row > scene.to.row THEN 1
         ELSE IF scene.from.row < scene.to.row THEN -1 ELSE 0)

FacingDot ==
    scene.facing.col * ToAttacker.col + scene.facing.row * ToAttacker.row

(* C26: checkFlanking is true exactly when the dot product of the target's *)
(* facing with the sign-normalized direction from target to attacker is    *)
(* <= 0: true for an attacker straight behind or straight to the side,     *)
(* false for one straight ahead; nothing but the three arguments counts.   *)
C26_Flanking ==
    outcome.kind = "flank" =>
        /\ outcome.flanked = (FacingDot <= 0)
        /\ ToAttacker = Tile(-scene.facing.col, -scene.facing.row)
              => outcome.flanked
        /\ ToAttacker \in {Tile(-scene.facing.row, scene.facing.col),
                           Tile(scene.facing.row, -scene.facing.col)}
              => outcome.flanked
        /\ ToAttacker = scene.facing => ~outcome.flanked
        /\ outcome.flanked = checkFlanking(scene.from, scene.to, scene.facing)

(* an attacker straight to the side of a diagonally facing target has      *)
(* been found to flank it                                                  *)
C26_Witness ==
    /\ outcome.kind = "flank"
    /\ scene.facing.col # 0
    /\ scene.facing.row # 0
    /\ ToAttacker = Tile(-scene.facing.row, scene.facing.col)
    /\ FacingDot = 0
    /\ outcome.flanked

(***************************************************************************)
(* Session bootstrap: init() of the game page loads one map file and       *)
(* starts a session on it.                                                 *)
(***************************************************************************)
LOADING == "loading"

(* A value of the map file, as far as the loader looks at it: its type,    *)
(* its number when it is one, its items when it is an array; for the       *)
(* spawnZones object, n is the number of tiles listed per faction.         *)
Undefined == [type |-> "undefined", n |-> 0, items |-> <<>>]
Number(n) == [type |-> "number", n |-> n, items |-> <<>>]
Text == [type |-> "string", n |-> 0, items |-> <<>>]
Array(items) == [type |-> "array", n |-> 0, items |-> items]
Object(n) == [type |-> "object", n |-> n, items |-> <<>>]

(* what `if (v)` and `v || d` take v for *)
truthy(v) ==
    /\ v.type # "undefined"
    /\ ~(v.type = "number" /\ v.n = 0)

isNumber(v) == v.type = "number"

(* _validateMapData of the editor's import *)
validateMapData(data) ==
    IF data.gridSize.type # "array" \/ Len(data.gridSize.items) # 2
    THEN FALSE
    ELSE IF ~isNumber(data.gridSize.items[1]) \/ ~isNumber(data.gridSize.items[2])
    THEN FALSE
    ELSE IF data.gridSize.items[1].n < 6 \/ data.gridSize.items[1].n > 40
    THEN FALSE
    ELSE IF data.gridSize.items[2].n < 6 \/ data.gridSize.items[2].n > 40
    THEN FALSE
    ELSE IF ~isNumber(data.tileSize) \/ data.tileSize.n <= 0
    THEN FALSE
    ELSE IF truthy(data.objects) /\ data.objects.type # "array"
    THEN FALSE
    ELSE IF truthy(data.spawnZones) /\ data.spawnZones.type # "object"
    THEN FALSE
    ELSE IF truthy(data.lights) /\ data.lights.type # "array"
    THEN FALSE
    ELSE TRUE

(* Each step of the loader either completes or throws.  createGroundPlane  *)
(* reads gridSize[0] and gridSize[1]: reading an index of undefined        *)
(* throws, of any other value it does not.                                 *)
createGroundPlane(mapData) ==
    [threw |-> mapData.gridSize.type = "undefined"]

(* loadCoverObjects and createEnvironmentLights return at once for a       *)
(* missing or empty list and run for-of over anything else, which throws   *)
(* for a value that is not iterable.                                       *)
placed(list) ==
    IF ~truthy(list) \/ (list.type = "array" /\ Len(list.items) = 0)
    THEN [threw |-> FALSE]
    ELSE [threw |-> list.type # "array"]

loadCoverObjects(mapData) == placed(mapData.objects)

createEnvironmentLights(mapData) == placed(mapData.lights)

(* setSpawnZones: the tiles zoned per faction; Object.entries of a number  *)
(* is empty                                                                *)
setSpawnZones(mapData) ==
    IF ~truthy(mapData.spawnZones) THEN 0
    ELSE IF mapData.spawnZones.type = "object" THEN mapData.spawnZones.n
    ELSE 0

GridSizes ==
    {Undefined, Number(20), Array(<<Number(20)>>),
     Array(<<Number(5), Number(16)>>), Array(<<Number(6), Number(40)>>),
     Array(<<Number(20), Number(16)>>), Array(<<Number(20), Number(41)>>),
     Array(<<Text, Number(16)>>)}

TileSizes == {Undefined, Number(2), Number(0), Number(-1), Text}

Lists == {Undefined, Array(<<>>), Array(<<Tile(1, 1)>>), Object(0)}

ZoneSets == {Undefined, Object(SpawnTiles), Number(5)}

MapFiles ==
    [gridSize : GridSizes, tileSize : TileSizes, objects : Lists,
     spawnZones : ZoneSets, lights : Lists]

Booting(stage) ==
    [kind |-> "boot", stage |-> stage, phase |-> LOADING, error |-> FALSE,
     zoned |-> 0, spawned |-> 0, started |-> FALSE]

InitLoad ==
    /\ NoGame
    /\ \E ok \in BOOLEAN, mapData \in MapFiles :
          scene = [kind |-> "boot", ok |-> ok, mapData |-> mapData]
    /\ outcome = Booting("fetching")

(* the catch of init(): the error is shown on the loading screen *)
failed(o) == [o EXCEPT !.stage = "failed", !.error = TRUE]

(* loadMap up to its first await on the parsed file *)
MapFetched ==
    /\ scene.kind = "boot"
    /\ outcome.stage = "fetching"
    /\ outcome' = IF ~scene.ok THEN failed(outcome)
                  ELSE [outcome EXCEPT !.stage = "parsed"]
    /\ UNCHANGED <<game, scene>>

GroundPlaneCreated ==
    /\ scene.kind = "boot"
    /\ outcome.stage = "parsed"
    /\ outcome' = IF createGroundPlane(scene.mapData).threw
                  THEN failed(outcome)
                  ELSE [outcome EXCEPT !.stage = "ground"]
    /\ UNCHANGED <<game, scene>>

(* loadMap from the cover objects to its return *)
MapLoaded ==
    /\ scene.kind = "boot"
    /\ outcome.stage = "ground"
    /\ outcome' =
         IF loadCoverObjects(scene.mapData).threw THEN failed(outcome)
         ELSE IF createEnvironmentLights(scene.mapData).threw
         THEN failed(outcome)
         ELSE [outcome EXCEPT !.stage = "loaded",
                              !.zoned = setSpawnZones(scene.mapData)]
    /\ UNCHANGED <<game, scene>>

(* spawnSquad for both factions *)
SquadsSpawned ==
    /\ scene.kind = "boot"
    /\ outcome.stage = "loaded"
    /\ outcome' = [outcome EXCEPT !.stage = "spawned",
                                  !.spawned = 2 * Min(squadSize, outcome.zoned)]
    /\ UNCHANGED <<game, scene>>

(* the end of init(): the phase leaves LOADING and startGame is called *)
GameStarted ==
    /\ scene.kind = "boot"
    /\ outcome.stage = "spawned"
    /\ outcome' = [outcome EXCEPT !.stage = "started",
                                  !.phase = PLAYER_SELECT_UNIT,
                                  !.started = TRUE]
    /\ UNCHANGED <<game, scene>>

NextLoad ==
    \/ MapFetched
    \/ GroundPlaneCreated
    \/ MapLoaded
    \/ SquadsSpawned
    \/ GameStarted

SpecLoad == InitLoad /\ [][NextLoad]_vars

(* C29: when the map data given to the bootstrap is malformed or out of    *)
(* bound (gridSize not a pair of numbers within 6..40, tileSize not a      *)
(* positive number, objects, spawnZones or lights of the wrong shape),     *)
(* loading aborts with a reported error: the map is never loaded, the      *)
(* phase never leaves Loading, no unit is spawned and startGame is never   *)
(* invoked.                                                                *)
C29_FatalLoadError ==
    (scene.kind = "boot" /\ ~validateMapData(scene.mapData)) =>
        /\ outcome.stage \notin {"loaded", "spawned", "started"}
        /\ outcome.phase = LOADING
        /\ outcome.spawned = 0
        /\ ~outcome.started

(***************************************************************************)
(* The move command over the tiles of a map.  One player unit is           *)
(* activated, shown its movement range and sent to tiles of the map;       *)
(* other units stand on some tiles, and one may still be walking to a tile *)
(* when the range is shown (a walk goes on from frame to frame whatever    *)
(* the phase; it is still going on in the movement phase of the next unit  *)
(* when an action command has ended the walker's activation early).        *)
(***************************************************************************)
MaxClicks == 2

NoClick == [kind |-> "none"]

ArrivalTiles == {Tile(1, 2), Tile(2, 0)}

(* the fields of the game a move command reads or writes *)
Selecting(grid, origin, arriving) ==
    [kind |-> "move", grid |-> grid, phase |-> PLAYER_SELECT_UNIT,
     activeUnit |-> NoUnit, tile |-> origin, ap |-> UNIT_STATS_ap,
     alive |-> TRUE, activated |-> FALSE, currentActivationIndex |-> 0,
     inputEnabled |-> TRUE, selectedMoveTiles |-> <<>>, path |-> <<>>,
     arriving |-> arriving, clicks |-> 0, last |-> NoClick]

InitMove ==
    /\ NoGame
    /\ \E blocked \in SUBSET WallTiles, others \in SUBSET UnitTiles,
          origin \in Origins, arriving \in SUBSET ArrivalTiles :
            /\ origin \notin blocked
            /\ Cardinality(arriving) <= 1
            /\ arriving \cap (blocked \cup others) = {}
            /\ scene = [kind |-> "move", blocked |-> blocked,
                        others |-> others, origin |-> origin]
            /\ outcome = Selecting([gridWidth |-> PathWidth,
                                   gridHeight |-> PathHeight,
                                   blocked |-> blocked,
                                   occupied |-> others \cup {origin}],
                                  origin, arriving)

(* _showMovementRange *)
showMovementRange(o) ==
    [o EXCEPT !.selectedMoveTiles =
        getMovementRange(o.grid, o.tile.col, o.tile.row, UNIT_STATS_movement)]

isValidMove(o, col, row) ==
    \E i \in DOMAIN o.selectedMoveTiles :
        o.selectedMoveTiles[i].col = col /\ o.selectedMoveTiles[i].row = row

(* a move command that leaves input disabled when no path is found *)
onPlayerMoveClickAt_NoRecovery(o, col, row) ==
    IF o.activeUnit = NoUnit \/ o.phase # PLAYER_MOVEMENT THEN o
    ELSE IF ~isValidMove(o, col, row) THEN o
    ELSE LET path == findPath(o.grid, o.tile, Tile(col, row))
         IN  IF ~path.found \/ Len(path.path) = 0
             THEN [o EXCEPT !.inputEnabled = FALSE]
             ELSE [o EXCEPT !.inputEnabled = FALSE,
                            !.ap = Max(0, @ - 1),
                            !.phase = COMBAT_ANIMATION,
                            !.path = path.path,
                            !.grid.occupied = @ \ {o.tile}]

(* onPlayerMoveClick up to its first await, with the first part of         *)
(* moveUnit: the tile the unit leaves loses its occupant                   *)
onPlayerMoveClickAt(o, col, row) ==
    IF o.activeUnit = NoUnit \/ o.phase # PLAYER_MOVEMENT THEN o
    ELSE IF ~isValidMove(o, col, row) THEN o
    ELSE LET path == findPath(o.grid, o.tile, Tile(col, row))
         IN  IF ~path.found \/ Len(path.path) = 0
             THEN showMovementRange([o EXCEPT !.inputEnabled = TRUE])
             ELSE [o EXCEPT !.inputEnabled = FALSE,
                            !.ap = Max(0, @ - 1),
                            !.phase = COMBAT_ANIMATION,
                            !.path = path.path,
                            !.grid.occupied = @ \ {o.tile}]

(* the tile:clicked listener of the turn manager *)
tileClicked(o, col, row) ==
    IF o.phase = PLAYER_MOVEMENT THEN onPlayerMoveClickAt(o, col, row)
    ELSE o

(* the rest of onPlayerMoveClick, run when the walk has ended on the last  *)
(* tile of the path (no watcher on this map)                               *)
moveArrived(o) ==
    LET end == o.path[Len(o.path)]
        a == [o EXCEPT !.tile = end, !.path = <<>>,
                       !.grid.occupied = @ \cup {end}]
    IN  IF a.alive /\ a.ap > 0
        THEN [a EXCEPT !.phase = PLAYER_ACTION, !.inputEnabled = TRUE]
        ELSE [a EXCEPT !.activated = TRUE, !.activeUnit = NoUnit,
                       !.currentActivationIndex = @ + 1,
                       !.phase = PLAYER_SELECT_UNIT]

(* what a step leaves of the state it started in *)
Before(o) == [o EXCEPT !.last = NoClick]

(* beginPlayerActivation for the unit *)
ActivationBegun ==
    /\ outcome.kind = "move"
    /\ outcome.phase = PLAYER_SELECT_UNIT
    /\ ~outcome.activated
    /\ outcome' = showMovementRange(
                     [outcome EXCEPT !.activeUnit = Mover,
                                     !.phase = PLAYER_MOVEMENT,
                                     !.inputEnabled = TRUE,
                                     !.last = NoClick])
    /\ UNCHANGED <<game, scene>>

(* the walk of another unit ends on its tile *)
WalkerArrived ==
    /\ outcome.kind = "move"
    /\ outcome.phase = PLAYER_MOVEMENT
    /\ \E t \in outcome.arriving :
          /\ t \notin outcome.grid.occupied
          /\ outcome' = [outcome EXCEPT !.grid.occupied = @ \cup {t},
                                        !.arriving = @ \ {t},
                                        !.last = NoClick]
    /\ UNCHANGED <<game, scene>>

(* a click on a tile of the map that has no occupant; clicks pass the      *)
(* InputManager only while it is enabled                                   *)
MoveCommanded ==
    /\ outcome.kind = "move"
    /\ outcome.inputEnabled
    /\ outcome.clicks < MaxClicks
    /\ \E t \in PathTiles \ outcome.grid.occupied :
          outcome' = [tileClicked(outcome, t.col, t.row)
                        EXCEPT !.clicks = @ + 1,
                               !.last = [kind |-> "click", tile |-> t,
                                         pre |-> Before(outcome)]]
    /\ UNCHANGED <<game, scene>>

MoveFinished ==
    /\ outcome.kind = "move"
    /\ outcome.path # <<>>
    /\ outcome' = [moveArrived(outcome)
                     EXCEPT !.last = [kind |-> "arrived",
                                      tile |-> outcome.path[Len(outcome.path)],
                                      pre |-> Before(outcome)]]
    /\ UNCHANGED <<game, scene>>

NextMove ==
    \/ ActivationBegun
    \/ WalkerArrived
    \/ MoveCommanded
    \/ MoveFinished

SpecMove == InitMove /\ [][NextMove]_vars

(* the tiles of a movement range *)
TilesOf(range) == {Tile(range[i].col, range[i].row) : i \in DOMAIN range}

(* the step was a move command for a tile of the displayed range, taken in *)
(* the movement phase with a unit active, for which findPath returned none *)
(* or an empty path                                                        *)
PathFailed ==
    /\ outcome.kind = "move"
    /\ outcome.last.kind = "click"
    /\ outcome.last.pre.phase = PLAYER_MOVEMENT
    /\ outcome.last.pre.activeUnit # NoUnit
    /\ outcome.last.tile \in TilesOf(outcome.last.pre.selectedMoveTiles)
    /\ LET path == findPath(outcome.last.pre.grid, outcome.last.pre.tile,
                            outcome.last.tile)
       IN  ~path.found \/ path.path = <<>>

(* C27: when a move command targets a tile of the displayed movement range *)
(* and findPath returns none or an empty path, the unit's ap, its tile and *)
(* the occupants of the tiles are unchanged, the phase is still            *)
(* PlayerMovement with the same active unit, input is enabled again and    *)
(* the range is shown again, so that a move command for any tile of it is  *)
(* accepted and an action command finds its active unit.                   *)
C27_PathFailureRecovered ==
    PathFailed =>
        /\ outcome.ap = outcome.last.pre.ap
        /\ outcome.tile = outcome.last.pre.tile
        /\ outcome.grid = outcome.last.pre.grid
        /\ outcome.phase = PLAYER_MOVEMENT
        /\ outcome.activeUnit = outcome.last.pre.activeUnit
        /\ outcome.alive
        /\ outcome.inputEnabled
        /\ outcome.path = <<>>
        /\ outcome.selectedMoveTiles =
              getMovementRange(outcome.grid, outcome.tile.col,
                               outcome.tile.row, UNIT_STATS_movement)
        /\ \A t \in TilesOf(outcome.selectedMoveTiles) :
              LET next == tileClicked(outcome, t.col, t.row)
              IN  /\ next.phase = COMBAT_ANIMATION
                  /\ next.path # <<>>
                  /\ next.path[Len(next.path)] = t

(* a path has failed for a tile that was in the displayed range, after     *)
(* another unit ended its walk in the way, and the range shown again has   *)
(* tiles left                                                              *)
C27_Witness ==
    /\ PathFailed
    /\ outcome.last.pre.arriving = {}
    /\ outcome.selectedMoveTiles # <<>>
    /\ outcome.last.tile \notin TilesOf(outcome.selectedMoveTiles)

(* the step was a move command *)
Clicked == outcome.kind = "move" /\ outcome.last.kind = "click"

(* the move command of the step was accepted: the unit set off *)
Accepted == Clicked /\ outcome.path # <<>>

(* C28: a move command is accepted only in phase PlayerMovement and only   *)
(* for a tile of the movement range shown for the active unit; in any      *)
(* other phase, or for a tile outside that set, it leaves the unit's tile, *)
(* its ap, the phase, the occupants of the tiles and the queue cursor      *)
(* unchanged; an accepted move costs exactly 1 AP and ends on the          *)
(* commanded tile over a path of at most `movement` steps.                 *)
C28_MoveCommandFrame ==
    /\ Clicked =>
          LET pre == outcome.last.pre
              inRange == outcome.last.tile \in TilesOf(pre.selectedMoveTiles)
          IN  /\ Accepted => pre.phase = PLAYER_MOVEMENT /\ inRange
              /\ (pre.phase # PLAYER_MOVEMENT \/ ~inRange) =>
                    /\ outcome.tile = pre.tile
                    /\ outcome.ap = pre.ap
                    /\ outcome.phase = pre.phase
                    /\ outcome.grid.occupied = pre.grid.occupied
                    /\ outcome.currentActivationIndex =
                          pre.currentActivationIndex
              /\ Accepted =>
                    /\ outcome.ap = pre.ap - 1
                    /\ outcome.path[Len(outcome.path)] = outcome.last.tile
                    /\ Len(outcome.path) <= UNIT_STATS_movement
    /\ (outcome.kind = "move" /\ outcome.last.kind = "arrived") =>
          /\ outcome.tile = outcome.last.tile
          /\ Len(outcome.last.pre.path) <= UNIT_STATS_movement

(* the player's move (with the overwatch shots it triggered) or attack of  *)
(* task t resolves in the step: its continuation has run to its end        *)
Resolves(t) ==
    /\ t \in BagToSet(tasks)
    /\ t.kind \in {"move", "attack"}
    /\ ~\E n \in BagToSet(tasks') : n.kind = t.kind /\ n.unit = t.unit

(* endActivation has run for unit u in the step: u was marked activated    *)
(* and the cursor advanced, before the next activation or the next turn    *)
(* began                                                                   *)
ActivationEnded(u) ==
    \/ /\ turn' = turn
       /\ units'[u].activated
       /\ currentActivationIndex' > currentActivationIndex
    \/ /\ turn' = turn + 1
       /\ u \notin missed'
       /\ currentActivationIndex' = 0

(* the AP of the unit of task t as its command resolves: an attack costs   *)
(* its AP in the step that resolves it                                     *)
apLeft(t) ==
    IF t.kind = "attack" THEN Max(0, units[t.unit].ap - 1)
    ELSE units[t.unit].ap

(* a turn that begins in the step gives every unit its AP back, so the     *)
(* unit is then judged by what it had as the command resolved.  The action *)
(* phase is not entered when the step does not take the phase to it; an    *)
(* action command taken in a forbidding phase may have left the phase      *)
(* there before.                                                           *)
ContinuationStep ==
    \A t \in BagToSet(tasks) :
        (Resolves(t) /\ checkWinCondition(units') = NoFaction) =>
            LET continues ==
                    IF turn' = turn
                    THEN units'[t.unit].alive /\ units'[t.unit].ap > 0
                    ELSE units[t.unit].alive /\ apLeft(t) > 0
            IN  IF continues
                THEN phase' = PLAYER_ACTION /\ turn' = turn
                ELSE /\ ActivationEnded(t.unit)
                     /\ phase' = PLAYER_ACTION => phase = PLAYER_ACTION
                     /\ stray = 0 => phase' # PLAYER_ACTION

TurnEndUnits ==
    {[createUnit EXCEPT !.activated = TRUE, !.status = ACTIVATED, !.ap = 1],
     [createUnit EXCEPT !.activated = TRUE, !.status = ACTIVATED, !.ap = 0,
                        !.hp = UNIT_STATS_hp - meleeDamage, !.tile = 1],
     [createUnit EXCEPT !.activated = TRUE, !.status = OVERWATCH, !.ap = 0,
                        !.overwatchCone = FacingCone],
     [createUnit EXCEPT !.activated = TRUE, !.status = HUNKERED, !.ap = 0,
                        !.tile = 1],
     [createUnit EXCEPT !.alive = FALSE, !.status = DEAD, !.hp = 0,
                        !.activated = TRUE, !.ap = 1],
     createUnit}

InitTurn ==
    /\ units \in [Units -> TurnEndUnits]
    /\ checkWinCondition(units) = NoFaction
    /\ phase = COMBAT_ANIMATION
    /\ activeUnit = NoUnit
    /\ activationQueue = buildActivationQueue(
                            [u \in Units |-> createUnit])
    /\ currentActivationIndex = Len(activationQueue)
    /\ turn = 1
    /\ validTargets = {}
    /\ pendingAttackType = "none"
    /\ inputEnabled = FALSE
    /\ tasks = EmptyBag
    /\ winner = NoFaction
    /\ began = NoBegin
    /\ lastFaction = NoFaction
    /\ missed = {}
    /\ endCount = [u \in Units |-> 0]
    /\ stray = 0
    /\ attacks = 0
    /\ commands = 0
    /\ activations = 0
    /\ occupant = {[tile |-> tileOf(units, u), unit |-> u] :
                        u \in {v \in Units : units[v].alive}}
    /\ fired = NoFired
    /\ attacked = NoAttacked
    /\ moved = NoMoved
    /\ scene = [kind |-> "turn", units |-> units]
    /\ outcome = NoOutcome

(* endTurn, called by nextActivation past the end of the queue *)
TurnEnded ==
    /\ scene.kind = "turn"
    /\ turn = 1
    /\ tasks = EmptyBag
    /\ Becomes(endTurn(Cur))

NextTurn == TurnEnded \/ TurnTransitionShown

SpecTurn == InitTurn /\ [][NextTurn]_vars

(* C31: startTurn increments the turn counter by exactly 1, sets           *)
(* activated = false and ap = maxAp on every living unit, turns every      *)
(* living unit in Overwatch or Hunkered back to Ready with a null cone,    *)
(* leaves dead units and all hp values and positions unchanged, rebuilds   *)
(* the activation queue from the living units and resets the cursor to 0   *)
(* before the first activation of the new turn begins.                     *)
C31_StartTurnReset ==
    (scene.kind = "turn" /\ turn # 1) =>
        /\ turn = 2
        /\ \A u \in Units :
              /\ units[u].hp = scene.units[u].hp
              /\ units[u].tile = scene.units[u].tile
              /\ units[u].alive = scene.units[u].alive
              /\ units[u].alive =>
                    /\ ~units[u].activated
                    /\ units[u].ap = units[u].maxAp
                    /\ scene.units[u].status \in {OVERWATCH, HUNKERED} =>
                          /\ units[u].status = READY
                          /\ units[u].overwatchCone = NoCone
              /\ ~units[u].alive => units[u] = scene.units[u]
        /\ {activationQueue[i] : i \in DOMAIN activationQueue} =
              {u \in Units : units[u].alive}
        /\ Len(activationQueue) = Cardinality({u \in Units : units[u].alive})
        /\ TurnTask \in BagToSet(tasks) =>
              /\ currentActivationIndex = 0
              /\ began = NoBegin
              /\ activeUnit = NoUnit

(* a turn has started, with its first activation yet to begin, over a      *)
(* unit that was in Overwatch, one that was Hunkered, and a dead one       *)
C31_Witness ==
    /\ scene.kind = "turn"
    /\ turn = 2
    /\ TurnTask \in BagToSet(tasks)
    /\ \E u \in Units : scene.units[u].status = OVERWATCH
    /\ \E u \in Units : scene.units[u].status = HUNKERED
    /\ \E u \in Units : ~scene.units[u].alive /\ scene.units[u].ap < UNIT_STATS_ap

(* endActivation has run once for unit u in the step, in a turn that goes  *)
(* on                                                                      *)
EndsActivation(u) ==
    /\ turn' = turn
    /\ endCount'[u] = endCount[u] + 1

Stances == {OVERWATCH, HUNKERED}

(* what endActivation leaves: the unit activated, its status Activated     *)
(* only from Ready, the cursor one further and then at the unit            *)
(* nextActivation begins, past the dead and the activated                  *)
EndActivationStep ==
    \A u \in DOMAIN units :
        EndsActivation(u) =>
            /\ units'[u].activated
            /\ units'[u].status = ACTIVATED =>
                  units[u].status \in {READY, ACTIVATED}
            /\ (units[u].status \in Stances /\ units'[u].alive) =>
                  units'[u].status \in Stances
            /\ currentActivationIndex' >= currentActivationIndex + 1
            /\ \A i \in currentActivationIndex + 1 ..
                        currentActivationIndex' - 1 :
                  \/ ~units'[activationQueue[i + 1]].alive
                  \/ units'[activationQueue[i + 1]].activated
            /\ (winner' = NoFaction
                  /\ currentActivationIndex' < Len(activationQueue)) =>
                  began'.unit = activationQueue[currentActivationIndex' + 1]
            /\ winner' # NoFaction =>
                  currentActivationIndex' = currentActivationIndex + 1

(* a stance is kept, with its cone, until the unit fires its overwatch     *)
(* shot, dies, or the next turn starts                                     *)
StanceKeptStep ==
    \A u \in DOMAIN units :
        (units[u].status \in Stances /\ turn' = turn /\ units'[u].alive
             /\ ~(attacked'.overwatch /\ attacked'.attacker = u)) =>
            /\ units'[u].status = units[u].status
            /\ units'[u].overwatchCone = units[u].overwatchCone

(* C32: endActivation(unit) sets activated = true, changes the status to   *)
(* Activated only if it was Ready, advances the cursor by one and calls    *)
(* nextActivation; a unit that set Overwatch or Hunkered keeps that status *)
(* (and, for Overwatch, its cone) through all following activations of the *)
(* same turn until it fires an overwatch shot, dies, or the next           *)
(* startTurn.                                                              *)
C32_EndActivation == [][EndActivationStep /\ StanceKeptStep]_vars

(* the same rule over the steps of runs in which every action command came *)
(* in a phase that takes one                                               *)
C32_EndActivationInPhase ==
    [][stray' = 0 => (EndActivationStep /\ StanceKeptStep)]_vars

(***************************************************************************)
(* One activation of the AI on a map.  The scene holds what the map gives  *)
(* the target queries from the tile the unit stands on and from the tile   *)
(* its move ends on: distance, line of sight and cover to each enemy.      *)
(***************************************************************************)
meleeRange == 1
targetScoreWeights_lowHp == 40
targetScoreWeights_close == 30
targetScoreWeights_noCover == 30

Thinker == 2
PlayerUnits == {u \in Units : faction(u) = playerFaction}

Sightings ==
    {[dist |-> 1, clear |-> TRUE, coverType |-> "none"],
     [dist |-> 4, clear |-> TRUE, coverType |-> "none"],
     [dist |-> 4, clear |-> TRUE, coverType |-> "half"],
     [dist |-> 4, clear |-> FALSE, coverType |-> "full"],
     [dist |-> rangedRange + 1, clear |-> TRUE, coverType |-> "none"]}

(* the tile of the scene the unit is on: 0 before its move, 1 after it *)
Position(us, u) == Min(1, us[u].tile)

sightOf(us, u, e) == scene.sight[Position(us, u)][e]

getValidRangedTargets(us, u) ==
    {e \in getAliveUnits(us, enemyFaction(faction(u))) :
        /\ sightOf(us, u, e).dist <= rangedRange
        /\ sightOf(us, u, e).clear}

getValidMeleeTargets(us, u) ==
    {e \in getAliveUnits(us, enemyFaction(faction(u))) :
        sightOf(us, u, e).dist <= meleeRange}

(* the score of pickBestTarget, times maxHp * rangedRange * 10 *)
targetScore(us, u, e) ==
    LET sight == sightOf(us, u, e)
    IN  targetScoreWeights_lowHp * (us[e].maxHp - us[e].hp)
              * rangedRange * 10
        + targetScoreWeights_close * (rangedRange - sight.dist)
              * us[e].maxHp * 10
        + (CASE sight.coverType = "none" -> targetScoreWeights_noCover * 10
             [] sight.coverType = "half" -> targetScoreWeights_noCover * 3
             [] OTHER -> 0) * us[e].maxHp * rangedRange

(* the first target of the list with the highest score *)
pickBestTarget(us, u, targets) ==
    CHOOSE e \in targets :
        \A o \in targets :
            \/ targetScore(us, u, e) > targetScore(us, u, o)
            \/ targetScore(us, u, e) = targetScore(us, u, o) /\ e <= o

Attack(type, target) == [choice |-> type, target |-> target]
NoAttack(choice) == [choice |-> choice, target |-> NoUnit]

(* a tree that looks for ranged targets first *)
firstDecision_RangedFirst(us, u) ==
    LET meleeTargets == getValidMeleeTargets(us, u)
        rangedTargets == getValidRangedTargets(us, u)
    IN  IF rangedTargets # {}
        THEN Attack("ranged", pickBestTarget(us, u, rangedTargets))
        ELSE IF meleeTargets # {}
        THEN Attack("melee", pickBestTarget(us, u, meleeTargets))
        ELSE IF scene.path THEN NoAttack("move") ELSE NoAttack("stay")

(* activateUnit: priorities 1 to 3 *)
firstDecision(us, u) ==
    LET meleeTargets == getValidMeleeTargets(us, u)
        rangedTargets == getValidRangedTargets(us, u)
    IN  IF meleeTargets # {}
        THEN Attack("melee", pickBestTarget(us, u, meleeTargets))
        ELSE IF rangedTargets # {}
        THEN Attack("ranged", pickBestTarget(us, u, rangedTargets))
        ELSE IF scene.path THEN NoAttack("move") ELSE NoAttack("stay")

(* activateUnit after _moveTowardEnemy: ranged targets, then melee *)
decisionAfterMove(us, u) ==
    LET newRangedTargets == getValidRangedTargets(us, u)
        newMeleeTargets == getValidMeleeTargets(us, u)
    IN  IF newRangedTargets # {}
        THEN Attack("ranged", pickBestTarget(us, u, newRangedTargets))
        ELSE IF newMeleeTargets # {}
        THEN Attack("melee", pickBestTarget(us, u, newMeleeTargets))
        ELSE NoAttack("none")

(* _continueActivation: melee targets, then ranged *)
nextDecision(us, u) ==
    LET meleeTargets == getValidMeleeTargets(us, u)
        rangedTargets == getValidRangedTargets(us, u)
    IN  IF meleeTargets # {}
        THEN Attack("melee", pickBestTarget(us, u, meleeTargets))
        ELSE IF rangedTargets # {}
        THEN Attack("ranged", pickBestTarget(us, u, rangedTargets))
        ELSE NoAttack("none")

(* the squads when the first AI unit is begun: the first player unit has   *)
(* ended its activation, the enemies are whole or wounded, the other AI    *)
(* unit has fallen                                                         *)
Fell == [createUnit EXCEPT !.alive = FALSE, !.status = DEAD, !.hp = 0]

ThinkingUnits ==
    {us \in [Units -> {createUnit, Fell,
                       [createUnit EXCEPT !.hp = meleeDamage],
                       [createUnit EXCEPT !.activated = TRUE,
                                          !.status = ACTIVATED, !.ap = 0],
                       [createUnit EXCEPT !.activated = TRUE,
                                          !.status = ACTIVATED, !.ap = 0,
                                          !.hp = meleeDamage]}] :
        /\ us[1].activated
        /\ \A u \in Units \ {1} : ~us[u].activated
        /\ us[Thinker] = createUnit
        /\ \E u \in PlayerUnits : us[u].hp = UNIT_STATS_hp /\ ~us[u].activated
        /\ \A u \in Units \ {Thinker} :
              faction(u) = aiFaction => us[u] = Fell}

(* what the activation never looks at is the same in every scene: there    *)
(* is no move, and no second tile, when the first search finds a target    *)
Looked(us) ==
    firstDecision(us, Thinker).target # NoUnit =>
        /\ ~scene.path
        /\ scene.sight[1] = scene.sight[0]

InitAI ==
    \E us \in ThinkingUnits :
        LET c == Constructed(SpawnTiles, SpawnTiles)
            g == beginAIActivation(
                    [c EXCEPT !.units = us, !.currentActivationIndex = 1,
                              !.lastFaction = playerFaction,
                              !.endCount[1] = 1, !.activations = 1,
                              !.commands = 1], Thinker)
        IN  /\ g.ok
            /\ units = g.units
            /\ phase = g.phase
            /\ activeUnit = g.activeUnit
            /\ activationQueue = g.activationQueue
            /\ currentActivationIndex = g.currentActivationIndex
            /\ turn = g.turn
            /\ validTargets = g.validTargets
            /\ pendingAttackType = g.pendingAttackType
            /\ inputEnabled = g.inputEnabled
            /\ tasks = g.tasks
            /\ winner = g.winner
            /\ began = g.began
            /\ lastFaction = g.lastFaction
            /\ missed = g.missed
            /\ endCount = g.endCount
            /\ stray = g.stray
            /\ attacks = g.attacks
            /\ commands = g.commands
            /\ activations = g.activations
            /\ occupant = {o \in g.occupant : us[o.unit].alive}
            /\ fired = g.fired
            /\ attacked = g.attacked
            /\ moved = g.moved
            /\ scene \in [kind : {"ai"},
                          sight : [0 .. 1 -> [PlayerUnits -> Sightings]],
                          path : BOOLEAN]
            /\ Looked(us)
            /\ outcome = NoOutcome

AIDecidesOnMap ==
    \E t \in Pending :
        /\ scene.kind = "ai"
        /\ t.pc = "aiStart"
        /\ LET d == firstDecision(units, t.unit)
           IN  Becomes(activateUnit(Cur, t, d.choice, d.target))

AIAfterMoveOnMap ==
    \E t \in Pending :
        /\ scene.kind = "ai"
        /\ t.pc = "aiAfterMove"
        /\ LET d == decisionAfterMove(units, t.unit)
           IN  Becomes(aiAfterMove(Cur, t, d.choice, d.target))

AIContinuesOnMap ==
    \E t \in Pending :
        /\ scene.kind = "ai"
        /\ t.pc = "aiContinue"
        /\ LET d == nextDecision(units, t.unit)
           IN  Becomes(continueActivation(Cur, t, d.choice, d.target))

NextAI ==
    \/ AIDecidesOnMap
    \/ AIMoved
    \/ AIAfterMoveOnMap
    \/ AttackStarted
    \/ AttackRolled
    \/ AttackDeath
    \/ AttackResolved
    \/ AIAttacked
    \/ AIContinuesOnMap
    \/ AIFinished

(* every awaited delay, camera pan, walk and animation ends *)
SpecAI == InitAI /\ [][NextAI]_vars /\ WF_vars(NextAI)

AIReturned == \A t \in Pending : t.kind # "ai"

(* the AI task of unit u after the step *)
After(u) == {n \in BagToSet(tasks') : n.kind = "ai" /\ n.unit = u}

(* the step starts an attack of the given type on a best-scored target of  *)
(* the set                                                                 *)
Attacks(u, type, targets) ==
    \E n \in After(u) :
        /\ n.pc = "atkStart"
        /\ n.attackType = type
        /\ n.target \in targets
        /\ \A o \in targets :
              targetScore(units, u, n.target) >= targetScore(units, u, o)

SetsOverwatch(u) ==
    /\ units[u].status # OVERWATCH
    /\ units'[u].status = OVERWATCH
    /\ units'[u].ap = units[u].ap - 1

Returns(u) == After(u) = {}

AttackPcs == {"atkStart", "atkRoll", "atkDeath", "atkEnd"}

(* the first action of an activation with AP *)
FirstActionStep ==
    \A t \in Pending :
        (t.pc = "aiStart" /\ units[t.unit].ap > 0) =>
            LET u == t.unit
                m == getValidMeleeTargets(units, u)
                r == getValidRangedTargets(units, u)
            IN  IF m # {} THEN Attacks(u, "melee", m)
                ELSE IF r # {} THEN Attacks(u, "ranged", r)
                ELSE \/ /\ units'[u].isMoving
                        /\ units'[u].ap = units[u].ap - 1
                        /\ \E n \in After(u) : n.pc = "aiMoved"
                     \/ /\ units' = units
                        /\ \E n \in After(u) : n.pc = "aiAfterMove"

(* after the move: the targets of the new position, else Overwatch *)
AfterMoveStep ==
    \A t \in Pending :
        t.pc = "aiAfterMove" =>
            LET u == t.unit
                m == getValidMeleeTargets(units, u)
                r == getValidRangedTargets(units, u)
            IN  IF m \cup r # {}
                THEN Attacks(u, "melee", m) \/ Attacks(u, "ranged", r)
                ELSE IF units[u].ap > 0 THEN SetsOverwatch(u)
                ELSE Returns(u)

(* after an attack: one more search while AP is left, and no third action *)
AfterAttackStep ==
    \A t \in Pending :
        LET u == t.unit
            m == getValidMeleeTargets(units, u)
            r == getValidRangedTargets(units, u)
        IN  /\ t.pc = "aiPost" =>
                  IF t.first /\ units[u].ap > 0 /\ units[u].alive
                  THEN \E n \in After(u) : n.pc = "aiContinue"
                  ELSE Returns(u)
            /\ (t.pc = "aiContinue" /\ units[u].alive /\ units[u].ap > 0) =>
                  IF m # {} THEN Attacks(u, "melee", m)
                  ELSE IF r # {} THEN Attacks(u, "ranged", r)
                  ELSE SetsOverwatch(u) /\ Returns(u)

(* an action is started with AP left, and costs one (the AP are given     *)
(* back when the activation was the last of its turn)                      *)
ActionStep ==
    \A t \in Pending :
        t.kind = "ai" =>
            LET u == t.unit
            IN  /\ ((\E n \in After(u) : n.pc = "atkStart")
                        \/ (units'[u].isMoving /\ ~units[u].isMoving)
                        \/ (units'[u].status = OVERWATCH
                                /\ units[u].status # OVERWATCH)) =>
                      units[u].ap > 0
                /\ turn' = turn =>
                      /\ units'[u].ap \in {units[u].ap, units[u].ap - 1}
                      /\ units'[u].ap = units[u].ap - 1 <=>
                            \/ t.pc = "atkEnd"
                            \/ units'[u].isMoving /\ ~units[u].isMoving
                            \/ units'[u].status = OVERWATCH
                                  /\ units[u].status # OVERWATCH

(* the actions of the activation: the AP spent and the attack under way *)
ActionsDone(t) ==
    (units[t.unit].maxAp - units[t.unit].ap)
        + (IF t.pc \in AttackPcs THEN 1 ELSE 0)

SpawnFacings == {Tile(1, 0), Tile(-1, 0)}

Directions == {Tile(c, r) : c \in -1 .. 1, r \in -1 .. 1} \ {Tile(0, 0)}

InitWalk ==
    /\ NoGame
    /\ \E blocked \in SUBSET WallTiles, others \in SUBSET UnitTiles,
          origin \in Origins, end \in PathTiles, facing \in SpawnFacings :
            LET grid == [gridWidth |-> PathWidth, gridHeight |-> PathHeight,
                         blocked |-> blocked,
                         occupied |-> others \cup {origin}]
            IN  /\ origin \notin blocked
                /\ end # origin
                /\ findPath(grid, origin, end).found
                /\ scene = [kind |-> "walk", grid |-> grid,
                            origin |-> origin, end |-> end]
                /\ outcome = [kind |-> "unit", tile |-> origin,
                              facing |-> facing, isMoving |-> FALSE,
                              movePath |-> <<>>, moveIndex |-> 0,
                              walked |-> <<>>, faced |-> FALSE]

(* moveUnit(unit, path) with the path of findPath *)
WalkStarted ==
    /\ outcome.kind = "unit"
    /\ ~outcome.isMoving
    /\ outcome.walked = <<>>
    /\ outcome' = [outcome EXCEPT
                      !.isMoving = TRUE,
                      !.movePath = findPath(scene.grid, scene.origin,
                                            scene.end).path,
                      !.moveIndex = 0]
    /\ UNCHANGED <<game, scene>>

(* _finishMovement *)
finishWalk(o) ==
    LET path == o.movePath
    IN  [o EXCEPT !.isMoving = FALSE,
                  !.facing =
                      IF Len(path) >= 2
                      THEN Tile(path[Len(path)].col - path[Len(path) - 1].col,
                                path[Len(path)].row - path[Len(path) - 1].row)
                      ELSE @,
                  !.walked = path, !.movePath = <<>>, !.moveIndex = 0]

(* _updateMovement when the unit arrives at a waypoint *)
WaypointReached ==
    /\ outcome.kind = "unit"
    /\ outcome.isMoving
    /\ Len(outcome.movePath) # 0
    /\ LET arrivedTile == outcome.movePath[outcome.moveIndex + 1]
           at == [outcome EXCEPT !.tile = arrivedTile, !.moveIndex = @ + 1]
       IN  outcome' = IF at.moveIndex >= Len(at.movePath)
                      THEN finishWalk(at) ELSE at
    /\ UNCHANGED <<game, scene>>

(* faceTarget: the signs of the way from the unit to the target tile *)
faceTarget(o, targetTile) ==
    [o EXCEPT !.facing = Tile(sign(targetTile.col - o.tile.col),
                              sign(targetTile.row - o.tile.row)),
              !.faced = TRUE]

(* executeAttack turns the attacker toward the tile of its target *)
TargetFaced ==
    /\ outcome.kind = "unit"
    /\ outcome.walked # <<>>
    /\ ~outcome.faced
    /\ \E target \in scene.grid.occupied \ {scene.origin} :
          outcome' = faceTarget(outcome, target)
    /\ UNCHANGED <<game, scene>>

NextWalk == WalkStarted \/ WaypointReached \/ TargetFaced

SpecWalk == InitWalk /\ [][NextWalk]_vars

(* the direction of the last step of the walk *)
LastStep(o) ==
    LET path == o.walked
        from == IF Len(path) >= 2 THEN path[Len(path) - 1] ELSE scene.origin
    IN  Tile(path[Len(path)].col - from.col, path[Len(path)].row - from.row)

Arrived(o) == o.kind = "unit" /\ o.walked # <<>> /\ ~o.faced

(* C34: when a unit completes a move along a path of any length >= 1, its  *)
(* facing is the direction of the last step of the path (for a one-step    *)
(* path, from its previous tile to the destination), and a unit's facing   *)
(* is always one of the 8 grid directions, never (0,0).                    *)
C34_FacingAfterMove ==
    outcome.kind = "unit" =>
        /\ Arrived(outcome) => outcome.facing = LastStep(outcome)
        /\ outcome.facing \in Directions

(* the same for the paths of two steps and more *)
C34_FacingAfterLongMove ==
    outcome.kind = "unit" =>
        /\ (Arrived(outcome) /\ Len(outcome.walked) >= 2) =>
              outcome.facing = LastStep(outcome)
        /\ outcome.facing \in Directions

(***************************************************************************)
(* Two units on a small map, each moved along the path findPath returns    *)
(* over the occupancy of the moment.  In a run without a command taken in  *)
(* a forbidding phase a move begins only when no unit walks; after such a  *)
(* command (scene.stray) an activation may begin, and its unit be moved,   *)
(* while the walk of the last is still awaited.                            *)
(***************************************************************************)
Walkers == {1, 2}
Objects == {Tile(1, 0), Tile(2, 1)}
CrowdSpawns == {<<Tile(0, 0), Tile(3, 2)>>, <<Tile(0, 1), Tile(2, 0)>>}

Standing1(tile) ==
    [tile |-> tile, isMoving |-> FALSE, movePath |-> <<>>, moveIndex |-> 0]

crowdGrid(o) ==
    [gridWidth |-> PathWidth, gridHeight |-> PathHeight,
     blocked |-> scene.blocked,
     occupied |-> {e.tile : e \in o.occupant}]

InitCrowd ==
    /\ NoGame
    /\ \E blocked \in SUBSET Objects, spawn \in CrowdSpawns,
          late \in BOOLEAN :
            /\ scene = [kind |-> "crowd", blocked |-> blocked,
                        stray |-> late]
            /\ outcome = [kind |-> "crowd",
                          units |-> [u \in Walkers |-> Standing1(spawn[u])],
                          occupant |-> {[tile |-> spawn[u], unit |-> u] :
                                            u \in Walkers},
                          moves |-> 0]

(* onPlayerMoveClick / executeAIMove up to the promise of moveUnit: a tile *)
(* of the movement range, the path to it, the old tile given up            *)
MoveBegun ==
    /\ outcome.kind = "crowd"
    /\ outcome.moves < MaxClicks
    /\ \E u \in Walkers, end \in PathTiles :
          LET unit == outcome.units[u]
              g == crowdGrid(outcome)
              range == getMovementRange(g, unit.tile.col, unit.tile.row,
                                        UNIT_STATS_movement)
              path == findPath(g, unit.tile, end)
          IN  /\ ~unit.isMoving
              /\ scene.stray \/ \A v \in Walkers : ~outcome.units[v].isMoving
              /\ end \in TilesOf(range)
              /\ path.found
              /\ Len(path.path) # 0
              /\ outcome' = [outcome EXCEPT
                    !.units[u] = [unit EXCEPT !.isMoving = TRUE,
                                              !.movePath = path.path,
                                              !.moveIndex = 0],
                    !.occupant = clearOccupant(@, unit.tile),
                    !.moves = @ + 1]
    /\ UNCHANGED <<game, scene>>

(* _updateMovement when a unit arrives at a waypoint, _finishMovement on   *)
(* the last                                                                *)
StepArrived ==
    /\ outcome.kind = "crowd"
    /\ \E u \in Walkers :
          LET unit == outcome.units[u]
              arrivedTile == unit.movePath[unit.moveIndex + 1]
              last == unit.moveIndex + 1 >= Len(unit.movePath)
          IN  /\ unit.isMoving
              /\ outcome' = [outcome EXCEPT
                    !.units[u] =
                        IF last THEN Standing1(arrivedTile)
                        ELSE [unit EXCEPT !.tile = arrivedTile,
                                          !.moveIndex = @ + 1],
                    !.occupant =
                        IF last THEN setOccupant(@, arrivedTile, u) ELSE @]
    /\ UNCHANGED <<game, scene>>

NextCrowd == MoveBegun \/ StepArrived

SpecCrowd == InitCrowd /\ [][NextCrowd]_vars

(* the units at rest are on tiles of their own, none on an object *)
Apart(o) ==
    /\ \A u, v \in Walkers :
          (u # v /\ ~o.units[u].isMoving /\ ~o.units[v].isMoving) =>
              o.units[u].tile # o.units[v].tile
    /\ \A u \in Walkers : o.units[u].tile \notin scene.blocked

(* C35: no two living units ever stand on the same tile and no living unit *)
(* ever stands on a non-walkable tile.                                     *)
C35_UnitsApart ==
    outcome.kind = "crowd" => Apart(outcome)

(* the same in the runs whose commands all came in a phase that takes them *)
C35_UnitsApartInPhase ==
    (outcome.kind = "crowd" /\ ~scene.stray) => Apart(outcome)

(* C36: at the start of every turn (after startTurn's reset and before the *)
(* first activation of the turn) every living unit has status Ready; and a *)
(* living unit that is not in Overwatch or Hunkered has status Activated   *)
(* if and only if its activated flag is true.                              *)
C36_ReadyAtTurnStart ==
    scene.kind = "turn" =>
        /\ (turn = 2 /\ TurnTask \in BagToSet(tasks)) =>
              \A u \in Units : units[u].alive => units[u].status = READY
        /\ \A u \in Units :
              (units[u].alive /\ units[u].status \notin Stances) =>
                  (units[u].status = ACTIVATED <=> units[u].activated)

(* what the reset does bring about: no living unit starts a turn in        *)
(* Overwatch or Hunkered, or with its activated flag set                   *)
C36_NoStanceAtTurnStart ==
    (scene.kind = "turn" /\ turn = 2 /\ TurnTask \in BagToSet(tasks)) =>
        \A u \in Units :
            units[u].alive =>
                /\ units[u].status \in {READY, ACTIVATED}
                /\ ~units[u].activated

(* C37: line of sight is symmetric: for every grid and every pair of tiles *)
(* a and b, checkLOS(a, b).clear equals checkLOS(b, a).clear.              *)
C37_LOSSymmetric ==
    (scene.kind = "sight" /\ outcome.kind = "los") =>
        outcome.los.clear =
            checkLOS(scene.objects, scene.to, scene.from).clear

(* the same for the pairs whose line is straight or diagonal, where both   *)
(* traces pass over the same tiles                                         *)
C37_LOSSymmetricOnStraightLines ==
    (scene.kind = "sight" /\ outcome.kind = "los"
        /\ (scene.from.col = scene.to.col \/ scene.from.row = scene.to.row
             \/ Abs(scene.from.col - scene.to.col)
                  = Abs(scene.from.row - scene.to.row))) =>
        outcome.los.clear =
            checkLOS(scene.objects, scene.to, scene.from).clear

(***************************************************************************)
(* The game from the first activation of a turn in which every unit has    *)
(* been hit once in melee before and stands next to its enemies: the       *)
(* player has asked for a melee attack and is to pick the target.  One     *)
(* unit a side.                                                            *)
(***************************************************************************)
InitLate ==
    \E m \in {d \in Maps : d[1] = 1} :
        LET c == Constructed(m[1], m[2])
            b == nextActivation(
                    [c EXCEPT !.units =
                        [u \in DOMAIN c.units |->
                            [c.units[u] EXCEPT
                                !.hp = UNIT_STATS_hp - meleeDamage]]])
            g == onPlayerAction(b, "melee",
                                getAliveUnits(b.units, aiFaction))
        IN  /\ g.ok
            /\ units = g.units
            /\ phase = g.phase
            /\ activeUnit = g.activeUnit
            /\ activationQueue = g.activationQueue
            /\ currentActivationIndex = g.currentActivationIndex
            /\ turn = g.turn
            /\ validTargets = g.validTargets
            /\ pendingAttackType = g.pendingAttackType
            /\ inputEnabled = g.inputEnabled
            /\ tasks = g.tasks
            /\ winner = g.winner
            /\ began = g.began
            /\ lastFaction = g.lastFaction
            /\ missed = g.missed
            /\ endCount = g.endCount
            /\ stray = g.stray
            /\ attacks = g.attacks
            /\ commands = g.commands
            /\ activations = g.activations
            /\ occupant = g.occupant
            /\ fired = g.fired
            /\ attacked = g.attacked
            /\ moved = g.moved
            /\ scene = [kind |-> "late"]
            /\ outcome = NoOutcome

SpecLate == InitLate /\ [][Next]_vars

Living(us) == {u \in DOMAIN us : us[u].alive}

(* a step kills at most one unit, the target of an attack being resolved   *)
(* and not its attacker                                                    *)
KillStep ==
    /\ Cardinality(Living(units) \ Living(units')) <= 1
    /\ \A u \in Living(units) \ Living(units') :
          \E t \in Pending :
              /\ t.pc = "atkDeath"
              /\ t.target = u
              /\ t.attacker # u

SomeoneLives ==
    \/ getAliveUnits(units, playerFaction) # {}
    \/ getAliveUnits(units, aiFaction) # {}

(* C38: a single attack resolution kills at most one unit and never the    *)
(* attacker, so no reachable state has both factions at zero living units. *)
C38_NoMutualElimination ==
    /\ [][KillStep]_vars
    /\ []SomeoneLives

(* the same over the runs whose commands all came in a phase that takes    *)
(* them                                                                    *)
C38_NoMutualEliminationInPhase ==
    /\ [][stray' = 0 => KillStep]_vars
    /\ [](stray = 0 => SomeoneLives)

(***************************************************************************)
(* Progress.  The game on a map with one spawn tile a side, under the      *)
(* scheduling the session relies on: a continuation that waits on a        *)
(* movement, an attack, a delay or the turn banner is resumed (weak        *)
(* fairness of the task steps), and the player, while a player phase       *)
(* lasts, asks to end the activation (weak fairness of that request).      *)
(***************************************************************************)
InitDuel == Init /\ Cardinality(DOMAIN units) = 2

EndRequested ==
    /\ phase \in PermittingPhases
    /\ ActionRequested("endTurn")

SpecProgress ==
    InitDuel /\ [][Next]_vars /\ WF_vars(TaskStep) /\ WF_vars(EndRequested)

(* a command that ends the activation is accepted: the phase is one of   *)
(* the player's and onPlayerAction finds a living active unit             *)
Accepting ==
    /\ phase \in PermittingPhases
    /\ activeUnit # NoUnit
    /\ units[activeUnit].alive

NeverRests == phase # GAME_OVER => tasks # EmptyBag \/ Accepting

(* the run has used up what the model allows it *)
Spent ==
    \/ commands >= MaxCommands
    \/ attacks >= MaxAttacks
    \/ activations >= MaxActivations
    \/ turn >= MaxTurn
    \/ BagCardinality(tasks) >= MaxTasks

Progressed(k, n) ==
    activations > k \/ turn > n \/ phase = GAME_OVER

====
